---- MODULE Spec2Model ----
(***************************************************************************)
(* State-machine model of the natural-language-to-SQL gateway:             *)
(*   - the KB refresh scheduler and the rules compiler (scheduler/,        *)
(*     core/rules_compiler.py, core/join_graph_builder.py),                *)
(*   - the request handlers /query and /clarify (api/routes.py) with the   *)
(*     context resolver, the SQL generator, the SQL validator and the      *)
(*     safe executor,                                                      *)
(*   - the metadata cache (core/metadata_cache.py).                        *)
(*                                                                         *)
(* A SQL statement is modelled by what the validator and the rewriters     *)
(* read of it: the number of top-level statements, the class of the root   *)
(* node, the node classes in the tree, the table references with their     *)
(* aliases and query level, the joins with their ON predicates, and the    *)
(* LIMIT / ORDER BY clauses in textual order.                              *)
(***************************************************************************)
EXTENDS Integers, Sequences, FiniteSets, TLC

VARIABLES
    diskSchema,     \* kb/kb_schema.json          (NoFile or a file record)
    diskSemantic,   \* kb/kb_semantic.json
    diskRules,      \* kb/compiled_rules.json
    tempSchema,     \* kb/kb_schema_temp.json
    tempSemantic,   \* kb/kb_semantic_temp.json
    tempRules,      \* kb/compiled_rules_temp.json
    sched,          \* KBRefreshScheduler fields
    tasks,          \* running calls of refresh_knowledge_base, by caller
    runs,           \* number of refresh pipelines started (stamps the files of a run)
    app,            \* lifespan: startup state and whether the periodic job is registered
    mcache,         \* MetadataCache entries
    dbMeta,         \* what the database would answer for the cached probes
    cacheReads,     \* the latest answer of get_max_date / get_table_row_estimate
    reqs,           \* the requests being handled, by request id
    sessions,       \* context_resolver.sessions
    added,          \* every turn handed to add_turn, by session, in call order
    executed,       \* log of safe_executor.execute_query calls
    llmOutputs,     \* the answers the LLM provider may give in this run
    clientInputs,   \* the requests clients send in this run
    toAdmit,        \* requests the run still admits
    calls,          \* the execute_query calls in progress, by call id
    pool,           \* the query pool of db_manager
    selection,      \* the select_top_columns call of the KB retriever
    catalog,        \* the tables and foreign keys of the live database
    introspection   \* the build_kb_schema / compile_rules run on that database

kbVars  == <<diskSchema, diskSemantic, diskRules, tempSchema, tempSemantic, tempRules,
             sched, tasks, runs, app>>
mcVars  == <<mcache, dbMeta, cacheReads>>
reqVars == <<reqs, sessions, added, executed, llmOutputs, clientInputs, toAdmit>>
execVars == <<calls, pool>>
retrVars == <<selection>>
introVars == <<catalog, introspection>>
vars    == <<diskSchema, diskSemantic, diskRules, tempSchema, tempSemantic, tempRules,
             sched, tasks, runs, app, mcache, dbMeta, cacheReads,
             reqs, sessions, added, executed, llmOutputs, clientInputs, toAdmit,
             calls, pool, selection, catalog, introspection>>

(***************************************************************************)
(* Bounds of the model.                                                    *)
(***************************************************************************)
MaxRuns     == 2    \* refresh pipelines started in one run of the model
MaxReqs     == 2    \* requests admitted in one run of the pipeline specification
MaxAdds     == 6    \* add_turn calls on one session in the context-resolver specification

statement_timeout_seconds == 30    \* settings.statement_timeout_seconds
query_pool_max_size       == 20    \* init_query_pool: max_size

NoSelection == [pc |-> "none"]

(***************************************************************************)
(* Program constants.                                                      *)
(***************************************************************************)
default_limit        == 200
max_limit            == 2000
max_join_depth       == 4
hard_cap_join_depth  == 6
deep_join_threshold  == 5
join_path_cutoff     == 4
max_turns            == 5

Min(a, b) == IF a <= b THEN a ELSE b

Range(f) == {f[i] : i \in DOMAIN f}

(***************************************************************************)
(* The database catalog as the introspector reports it.  A table key is    *)
(* the schema-qualified name, kept as a record [db, name].                 *)
(***************************************************************************)
T(db, name) == [db |-> db, name |-> name]

FK(ft, fc, tt, tc) == [from_table |-> ft, from_column |-> fc, to_table |-> tt, to_column |-> tc]

CoreTables == {T("core", "loans"), T("core", "branches"), T("core", "audit")}

\* A wider catalog: core.loans with seven tables around it, each tied to it by
\* one foreign key.
StarArms ==
    << [name |-> "branches",    alias |-> "b", fk |-> FK(T("core", "loans"), "branch_id", T("core", "branches"), "id")],
       [name |-> "officers",    alias |-> "o", fk |-> FK(T("core", "loans"), "officer_id", T("core", "officers"), "id")],
       [name |-> "borrowers",   alias |-> "w", fk |-> FK(T("core", "loans"), "borrower_id", T("core", "borrowers"), "id")],
       [name |-> "products",    alias |-> "p", fk |-> FK(T("core", "loans"), "product_id", T("core", "products"), "id")],
       [name |-> "audit",       alias |-> "a", fk |-> FK(T("core", "audit"), "loan_id", T("core", "loans"), "id")],
       [name |-> "documents",   alias |-> "d", fk |-> FK(T("core", "documents"), "loan_id", T("core", "loans"), "id")],
       [name |-> "collections", alias |-> "c", fk |-> FK(T("core", "collections"), "loan_id", T("core", "loans"), "id")] >>

StarTables == {T("core", "loans")} \cup {T("core", StarArms[i].name) : i \in DOMAIN StarArms}

StarForeignKeys == {StarArms[i].fk : i \in DOMAIN StarArms}

\* The schemas the live database may show at an introspection.
Schemas ==
    [ fk    |-> [schema_name |-> "core", tables |-> CoreTables,
                 foreign_keys |-> {FK(T("core", "loans"), "branch_id", T("core", "branches"), "id")}],
      fk2   |-> [schema_name |-> "core", tables |-> CoreTables,
                 foreign_keys |-> {FK(T("core", "loans"), "branch_id", T("core", "branches"), "id"),
                                   FK(T("core", "audit"), "loan_id", T("core", "loans"), "id")}],
      nofk  |-> [schema_name |-> "core", tables |-> CoreTables, foreign_keys |-> {}],
      empty |-> [schema_name |-> "core", tables |-> {}, foreign_keys |-> {}],
      star  |-> [schema_name |-> "core", tables |-> StarTables, foreign_keys |-> StarForeignKeys] ]

\* The schemas over the three tables of CoreTables.
SchemaNames == {"fk", "fk2", "nofk", "empty"}

\* What an introspection of the live database finds while the process runs: the
\* schema with its foreign key, or no table at all.
LiveSchemas == {"fk", "empty"}

(***************************************************************************)
(* JoinGraphBuilder                                                        *)
(***************************************************************************)
\* build_fk_graph: one directed edge child -> parent and one parent -> child per FK.
build_fk_graph(kb_schema) ==
    [ nodes |-> kb_schema.tables \cup {fk.from_table : fk \in kb_schema.foreign_keys}
                                 \cup {fk.to_table : fk \in kb_schema.foreign_keys},
      edges |-> {FK(fk.from_table, fk.from_column, fk.to_table, fk.to_column) : fk \in kb_schema.foreign_keys}
                \cup {FK(fk.to_table, fk.to_column, fk.from_table, fk.from_column) : fk \in kb_schema.foreign_keys} ]

\* get_fk_edges: the declared direction only (child -> parent).
get_fk_edges(kb_schema) ==
    {FK(fk.from_table, fk.from_column, fk.to_table, fk.to_column) : fk \in kb_schema.foreign_keys}

RECURSIVE ReachWithin(_, _, _)
ReachWithin(edges, frontier, k) ==
    IF k = 0 THEN frontier
    ELSE ReachWithin(edges,
                     frontier \cup {e.to_table : e \in {x \in edges : x.from_table \in frontier}},
                     k - 1)

\* compute_join_paths: the keys (from, to) of the shortest paths within the cutoff.
compute_join_paths(kb_schema) ==
    LET g == build_fk_graph(kb_schema)
    IN  {<<u, v>> \in g.nodes \X g.nodes :
            u # v /\ v \in ReachWithin(g.edges, {u}, join_path_cutoff)}

(***************************************************************************)
(* RulesCompiler.compile_rules / validate_compiled_rules                   *)
(***************************************************************************)
compile_rules(kb_schema, version) ==
    [ version     |-> version,
      schema_name |-> kb_schema.schema_name,
      tables      |-> kb_schema.tables,
      join_graph  |-> build_fk_graph(kb_schema),
      join_paths  |-> compute_join_paths(kb_schema),
      fk_edges    |-> get_fk_edges(kb_schema),
      query_policies |->
        [ default_limit |-> default_limit, max_limit |-> max_limit,
          max_join_depth |-> max_join_depth, hard_cap_join_depth |-> hard_cap_join_depth,
          require_where_for_deep_joins |-> TRUE, deep_join_threshold |-> deep_join_threshold,
          require_schema_qualification |-> TRUE,
          allowed_schemas |-> <<kb_schema.schema_name>> ] ]

validate_compiled_rules(rules) == rules.tables # {}

(***************************************************************************)
(* SQL statements.                                                         *)
(*   kind      "sql", or "none" (None) / "blank" ('' or whitespace)        *)
(*   parses    sqlglot.parse_one succeeds                                  *)
(*   nstmts    len(sqlglot.parse(sql))                                     *)
(*   root      class of the root node of the first statement               *)
(*   nodes     classes of the other nodes of its tree that the checks read *)
(*   keywords  blocked keywords in the text outside literals and comments  *)
(*   functions function names in the tree                                  *)
(*   ctes      names of the CTEs of the WITH clause                        *)
(*   tables    the Table nodes in traversal order: db ("" when             *)
(*             unqualified), name, alias ("" when none), the query level   *)
(*             they appear in (0 is the outer query) and whether a FROM or *)
(*             a JOIN introduces them                                      *)
(*   joins     the Join nodes: kind, query level, ON shape ("none", "eq",  *)
(*             "and", "other") and its equality predicates lt.lc = rt.rc   *)
(*   where     a WHERE somewhere in the tree                               *)
(*   limits    the LIMIT <digits> occurrences of the text in textual       *)
(*             order: "outer" (the outer query's, always last), "sub" (a   *)
(*             subquery's or CTE's) or "lit" (inside a string literal)     *)
(*   orders    the ORDER BY clauses likewise, dir "" when not written      *)
(***************************************************************************)
NoSql    == [kind |-> "none"]
BlankSql == [kind |-> "blank"]

Tbl(db, name, alias, lvl, via) == [db |-> db, name |-> name, alias |-> alias, lvl |-> lvl, via |-> via]
Pred(lt, lc, rt, rc) == [lt |-> lt, lc |-> lc, rt |-> rt, rc |-> rc]
Jn(kind, lvl, shape, preds) == [kind |-> kind, lvl |-> lvl, shape |-> shape, preds |-> preds]
Lim(lvl, n) == [lvl |-> lvl, n |-> n]
Ord(lvl, col, dir) == [lvl |-> lvl, col |-> col, dir |-> dir]

\* SELECT * FROM core.loans l
Plain ==
    [ kind |-> "sql", parses |-> TRUE, nstmts |-> 1, root |-> "Select", nodes |-> {},
      keywords |-> {}, functions |-> {}, ctes |-> {},
      tables |-> <<Tbl("core", "loans", "l", 0, "from")>>, joins |-> <<>>,
      where |-> FALSE, limits |-> <<>>, orders |-> <<>> ]

(***************************************************************************)
(* validation/ast_parser.py                                                *)
(***************************************************************************)
ForbiddenNodes == {"Insert", "Update", "Delete", "Merge", "Create", "Drop", "Alter",
                   "Truncate", "Rename", "Grant", "Revoke", "Command", "Set", "Use", "Kill"}

AllowedRoots == {"Select", "Union", "Intersect", "Except", "Subquery", "With"}

\* ast.find(...) looks at the root as well as at every node below it.
TreeNodes(s) == s.nodes \cup {s.root}

\* A check that counts no statements (faulty variant of is_single_statement).
is_single_statement_any(s) == TRUE

\* is_single_statement: sqlglot.parse gives exactly one statement.
is_single_statement(s) == s.nstmts = 1

is_select_only(s) ==
    /\ TreeNodes(s) \cap ForbiddenNodes = {}
    /\ s.root \in AllowedRoots

\* extract_tables: "db.name" or "name", duplicates removed, first occurrence kept.
TableStr(t) == T(t.db, t.name)

extract_tables(s) ==
    LET strs == [i \in DOMAIN s.tables |-> TableStr(s.tables[i])]
        first(i) == \A j \in 1..(i - 1) : strs[j] # strs[i]
        keep == {i \in DOMAIN strs : first(i)}
        RECURSIVE build(_)
        build(i) == IF i = 0 THEN <<>>
                    ELSE IF i \in keep THEN Append(build(i - 1), strs[i]) ELSE build(i - 1)
    IN  build(Len(strs))

extract_cte_names(s) == s.ctes

extract_joins(s) == s.joins

SyntaxLimits(s) == SelectSeq(s.limits, LAMBDA l : l.lvl # "lit")

\* has_limit: ast.find(exp.Limit) anywhere in the tree.
has_limit(s) == SyntaxLimits(s) # <<>>

\* get_limit_value: the first Limit node in breadth-first order, the outer query's
\* when it has one, else a nested one.  0 stands for None.
get_limit_value(s) ==
    LET syn == SyntaxLimits(s)
        outer == SelectSeq(syn, LAMBDA l : l.lvl = "outer")
    IN  IF syn = <<>> THEN 0
        ELSE IF outer # <<>> THEN outer[1].n ELSE syn[1].n

\* inject_limit: a regular expression over the regenerated text.  Every
\* LIMIT <digits> of the text is replaced, wherever it stands; a LIMIT is
\* appended at the end only when the text holds none.
inject_limit(s, limit) ==
    IF s.limits # <<>>
    THEN [s EXCEPT !.limits = [i \in DOMAIN s.limits |-> Lim(s.limits[i].lvl, limit)],
                   !.nstmts = 1]
    ELSE [s EXCEPT !.limits = <<Lim("outer", limit)>>, !.nstmts = 1]

has_where(s) == s.where

IsCteName(t, cte_names) == t.name \in cte_names

\* get_join_depth(ast, exclude_ctes=True)
get_join_depth(s) ==
    LET phys == {t \in Range(extract_tables(s)) : ~IsCteName(t, extract_cte_names(s))}
    IN  IF Cardinality(phys) = 0 THEN 0 ELSE Cardinality(phys) - 1

(***************************************************************************)
(* validation/blocked_patterns.py                                          *)
(***************************************************************************)
BLOCKED_FUNCTIONS == {"pg_sleep", "pg_sleep_for", "pg_sleep_until", "pg_read_file",
    "pg_read_binary_file", "pg_ls_dir", "dblink", "dblink_exec", "dblink_connect",
    "dblink_open", "lo_import", "lo_export", "lo_create", "lo_unlink",
    "pg_terminate_backend", "pg_cancel_backend", "pg_reload_conf",
    "pg_advisory_lock", "pg_try_advisory_lock"}

BLOCKED_KEYWORDS == {"INSERT", "UPDATE", "DELETE", "TRUNCATE", "DROP", "CREATE", "ALTER",
    "RENAME", "GRANT", "REVOKE", "BEGIN", "COMMIT", "ROLLBACK", "SAVEPOINT", "VACUUM",
    "ANALYZE", "CLUSTER", "REINDEX", "DO", "CALL", "COPY", "LISTEN", "NOTIFY", "UNLISTEN"}

check_blocked_functions(functions) == functions \cap BLOCKED_FUNCTIONS

check_blocked_keywords(s) == s.keywords \cap BLOCKED_KEYWORDS

check_blocked_join_types(joins) == {j \in Range(joins) : j.kind = "CROSS"}

check_non_select_statement(s) ==
    s.root \notin {"Select", "With", "Union", "Intersect", "Except", "Subquery"}

(***************************************************************************)
(* validation/join_validator.py                                            *)
(***************************************************************************)
\* _default_schema: allowed_schemas[0], else "core".
default_schema_of(rules) ==
    IF Len(rules.query_policies.allowed_schemas) > 0
    THEN rules.query_policies.allowed_schemas[1] ELSE "core"

\* _qualify_table
qualify_table(t, schema) == IF t.db # "" THEN t ELSE T(schema, t.name)

\* Undirected reachability over the (from, to) pairs of the join_paths keys.
RECURSIVE PairClosure(_, _)
PairClosure(pairs, reached) ==
    LET next == reached \cup {p[2] : p \in {q \in pairs : q[1] \in reached}}
                        \cup {p[1] : p \in {q \in pairs : q[2] \in reached}}
    IN  IF next = reached THEN reached ELSE PairClosure(pairs, next)

\* validate_join_path(tables, schema_name): TRUE when the path is accepted.
validate_join_path(rules, tables, schema_name) ==
    LET qualified == [i \in DOMAIN tables |-> qualify_table(tables[i], schema_name)]
        available == {p[1] : p \in rules.join_paths} \cup {p[2] : p \in rules.join_paths}
    IN  IF Len(tables) <= 1 THEN TRUE
        ELSE IF rules.join_paths = {} THEN TRUE
        ELSE IF \E t \in Range(qualified) : t \notin available THEN FALSE
        ELSE Range(qualified) \subseteq PairClosure(rules.join_paths, {qualified[1]})

\* check_join_depth: [is_valid, errors, warnings]
check_join_depth(rules, join_depth, has_where_) ==
    LET pol == rules.query_policies IN
    IF join_depth > pol.hard_cap_join_depth
    THEN [is_valid |-> FALSE, errors |-> {"join_depth_hard_cap"}, warnings |-> {}]
    ELSE LET warn == IF join_depth > pol.max_join_depth THEN {"join_depth_soft_max"} ELSE {}
         IN  IF join_depth >= pol.deep_join_threshold /\ pol.require_where_for_deep_joins
                /\ ~has_where_
             THEN [is_valid |-> FALSE, errors |-> {"join_depth_needs_where"}, warnings |-> warn]
             ELSE [is_valid |-> TRUE, errors |-> {}, warnings |-> warn]

\* The alias map of validate_join_on_clauses: every FROM table of the tree, then
\* every JOIN table, keyed by alias (or name); a later entry overwrites an earlier
\* one.  A table whose name is a CTE name maps to the bare name.
AliasEntries(s) ==
    SelectSeq(s.tables, LAMBDA t : t.via = "from") \o SelectSeq(s.tables, LAMBDA t : t.via = "join")

AliasKey(t) == IF t.alias # "" THEN t.alias ELSE t.name

FullName(t, cte_names, schema) ==
    IF t.name \in cte_names THEN T("", t.name)
    ELSE IF t.db # "" THEN T(t.db, t.name) ELSE T(schema, t.name)

alias_map_get(s, rules, a) ==
    LET es == AliasEntries(s)
        hits == {i \in DOMAIN es : AliasKey(es[i]) = a}
    IN  IF hits = {} THEN T("", a)
        ELSE FullName(es[CHOOSE i \in hits : \A j \in hits : j <= i], s.ctes, default_schema_of(rules))

fk_lookup(fk_edges) ==
    {<<e.from_table, e.from_column, e.to_table, e.to_column>> : e \in fk_edges}
    \cup {<<e.to_table, e.to_column, e.from_table, e.from_column>> : e \in fk_edges}

PredQualified(p) == p.lt # "" /\ p.lc # "" /\ p.rt # "" /\ p.rc # ""

PredCte(s, rules, p) ==
    \/ alias_map_get(s, rules, p.lt).name \in s.ctes
    \/ alias_map_get(s, rules, p.rt).name \in s.ctes

PredFk(s, rules, p, fk_edges) ==
    LET l == alias_map_get(s, rules, p.lt)
        r == alias_map_get(s, rules, p.rt)
    IN  \/ <<l, p.lc, r, p.rc>> \in fk_lookup(fk_edges)
        \/ <<r, p.rc, l, p.lc>> \in fk_lookup(fk_edges)

\* One JOIN of validate_join_on_clauses: TRUE when it adds no error.
JoinOnAccepted(s, rules, j, fk_edges) ==
    CASE j.shape = "none" -> FALSE
      [] j.shape = "eq" ->
            LET p == j.preds[1] IN
            /\ PredQualified(p)
            /\ (PredCte(s, rules, p) \/ PredFk(s, rules, p, fk_edges))
      [] j.shape = "and" ->
            LET parsed == {p \in Range(j.preds) : PredQualified(p)}
                any_cte_involved == \E p \in parsed : PredCte(s, rules, p)
                found_fk_match == \E p \in parsed : ~PredCte(s, rules, p) /\ PredFk(s, rules, p, fk_edges)
            IN  found_fk_match \/ any_cte_involved
      [] OTHER -> FALSE

\* validate_join_on_clauses(sql, fk_edges): TRUE when no JOIN adds an error.
validate_join_on_clauses(s, rules, fk_edges) ==
    \A j \in Range(s.joins) : JoinOnAccepted(s, rules, j, fk_edges)

(***************************************************************************)
(* core/sql_validator.py                                                   *)
(***************************************************************************)
\* Step 6: table existence and allowed schema, CTE names skipped.
TableErrors(s, rules, schema_name) ==
    LET phys == {t \in Range(extract_tables(s)) : ~IsCteName(t, extract_cte_names(s))}
    IN  (IF \E t \in phys : t.db # "" /\ t.db # schema_name THEN {"schema_not_allowed"} ELSE {})
        \cup
        (IF \E t \in phys : (t.db = "" \/ t.db = schema_name)
                            /\ qualify_table(t, schema_name) \notin rules.tables
         THEN {"table_not_found"} ELSE {})

\* Step 7: schema-qualification warnings.
QualificationWarnings(s, rules) ==
    IF rules.query_policies.require_schema_qualification
       /\ \E t \in Range(extract_tables(s)) : ~IsCteName(t, extract_cte_names(s)) /\ t.db = ""
    THEN {"unqualified_table"} ELSE {}

\* Step 9: join path over the physical tables.
physical_tables(s) ==
    SelectSeq(extract_tables(s), LAMBDA t : ~IsCteName(t, extract_cte_names(s)))

JoinPathErrors(s, rules, schema_name) ==
    IF Len(physical_tables(s)) > 1 /\ ~validate_join_path(rules, physical_tables(s), schema_name)
    THEN {"invalid_join_path"} ELSE {}

\* Step 9b: JOIN ON against the FK edges.
JoinOnErrors(s, rules) ==
    IF Len(extract_joins(s)) > 0 /\ ~validate_join_on_clauses(s, rules, rules.fk_edges)
    THEN {"invalid_join_on"} ELSE {}

\* Step 12: LIMIT enforcement: [sql, warnings, limit_changed].
LimitEnforcement(s, rules) ==
    LET dl == rules.query_policies.default_limit
        ml == rules.query_policies.max_limit
    IN  IF ~has_limit(s)
        THEN [sql |-> inject_limit(s, dl), warnings |-> {"limit_injected"}]
        ELSE IF get_limit_value(s) # 0 /\ get_limit_value(s) > ml
             THEN [sql |-> inject_limit(s, ml), warnings |-> {"limit_capped"}]
             ELSE [sql |-> s, warnings |-> {}]

\* _build_safety_explanation: the lines of the explanation, as tags.
build_safety_explanation(table_count, join_depth, has_where_, has_limit_) ==
    {"select_only", "tables_exist", "no_blocked", "read_only_timeout"}
    \cup (IF table_count > 1 THEN {"join_path"} ELSE {})
    \cup (IF has_where_ THEN {"where"} ELSE {})
    \cup (IF has_limit_ THEN {"limit"} ELSE {})

Rejected(s, errs) ==
    [is_valid |-> FALSE, sql |-> s, errors |-> errs, warnings |-> {}, safety_explanation |-> {}]

\* SQLValidator(compiled_rules).validate_sql(sql)
validate_sql(s, rules) ==
    IF s.kind # "sql" THEN Rejected(s, {"empty_sql"})
    ELSE IF ~s.parses THEN Rejected(s, {"parse_error"})
    ELSE
    LET schema_name == IF Len(rules.query_policies.allowed_schemas) > 0
                       THEN rules.query_policies.allowed_schemas[1] ELSE rules.schema_name
        join_depth == get_join_depth(s)
        depth == IF join_depth > 0 THEN check_join_depth(rules, join_depth, has_where(s))
                 ELSE [is_valid |-> TRUE, errors |-> {}, warnings |-> {}]
        lim == LimitEnforcement(s, rules)
        errors ==
            (IF ~is_single_statement(s) THEN {"multi_statement"} ELSE {})
            \cup (IF ~is_select_only(s) THEN {"not_select"} ELSE {})
            \cup (IF check_non_select_statement(s) THEN {"not_select_enhanced"} ELSE {})
            \cup (IF check_blocked_keywords(s) # {} THEN {"blocked_keywords"} ELSE {})
            \cup TableErrors(s, rules, schema_name)
            \cup (IF check_blocked_functions(s.functions) # {} THEN {"blocked_functions"} ELSE {})
            \cup (IF check_blocked_join_types(extract_joins(s)) # {} THEN {"blocked_join_type"} ELSE {})
            \cup JoinPathErrors(s, rules, schema_name)
            \cup JoinOnErrors(s, rules)
            \cup depth.errors
        warnings == QualificationWarnings(s, rules) \cup depth.warnings \cup lim.warnings
        is_valid == errors = {}
    IN  [ is_valid |-> is_valid,
          sql |-> lim.sql,
          errors |-> errors,
          warnings |-> warnings,
          safety_explanation |->
             IF is_valid
             THEN build_safety_explanation(Len(extract_tables(s)), join_depth, has_where(s), TRUE)
             ELSE {} ]

(***************************************************************************)
(* The statements the LLM may be made to produce (the validator's inputs). *)
(***************************************************************************)
LimitValues == {5, 2000, 5000}

\* SELECT * FROM core.loans l WHERE l.branch_id IN (SELECT b.id FROM core.branches b)
WithSubquery ==
    [Plain EXCEPT !.tables = <<Tbl("core", "loans", "l", 0, "from"),
                                Tbl("core", "branches", "b", 1, "from")>>,
                  !.where = TRUE]

\* SELECT * FROM core.loans l WHERE l.id IN (SELECT a.loan_id FROM core.audit a)
WithSubqueryAudit ==
    [Plain EXCEPT !.tables = <<Tbl("core", "loans", "l", 0, "from"),
                                Tbl("core", "audit", "a", 1, "from")>>,
                  !.where = TRUE]

LimitClauses(lit, sub, outer) ==
    (IF lit THEN <<Lim("lit", 5)>> ELSE <<>>)
    \o (IF sub # 0 THEN <<Lim("sub", sub)>> ELSE <<>>)
    \o (IF outer # 0 THEN <<Lim("outer", outer)>> ELSE <<>>)

\* Every placement of LIMIT: none, in a string literal ('LIMIT 5'), in the
\* subquery, in the outer query, and their combinations.
LimitFamily ==
    {[(IF sub = 0 THEN Plain ELSE WithSubquery) EXCEPT !.limits = LimitClauses(lit, sub, outer)] :
        lit \in BOOLEAN, sub \in {0} \cup LimitValues, outer \in {0} \cup LimitValues}

\* Statement kinds other than a single SELECT.
KindFamily ==
    { [Plain EXCEPT !.root = "Union"],
      \* SET statement_timeout = 0
      [Plain EXCEPT !.root = "Set", !.tables = <<>>],
      \* SHOW server_version
      [Plain EXCEPT !.root = "Command", !.tables = <<>>],
      \* INSERT INTO core.loans SELECT * FROM core.loans
      [Plain EXCEPT !.root = "Insert", !.keywords = {"INSERT"}],
      \* MERGE INTO core.loans l USING core.branches b ON ... WHEN MATCHED THEN DELETE
      [Plain EXCEPT !.root = "Merge", !.keywords = {"DELETE"}],
      \* WITH d AS (DELETE FROM core.loans RETURNING *) SELECT * FROM d
      [Plain EXCEPT !.nodes = {"Delete"}, !.keywords = {"DELETE"}, !.ctes = {"d"},
                    !.tables = <<Tbl("", "d", "", 0, "from"), Tbl("core", "loans", "", 1, "from")>>],
      \* SELECT * FROM core.loans l; SET statement_timeout = 0
      [Plain EXCEPT !.nstmts = 2],
      \* SELECT * FROM core.loans l; DROP TABLE core.loans
      [Plain EXCEPT !.nstmts = 2, !.keywords = {"DROP"}],
      \* SELECT * FROM core.loans l LIMIT 5; SELECT * FROM core.loans l
      [Plain EXCEPT !.nstmts = 2, !.limits = <<Lim("outer", 5)>>],
      \* SELEC * FORM core.loans
      [Plain EXCEPT !.parses = FALSE],
      \* SELECT * FROM core.secrets s
      [Plain EXCEPT !.tables = <<Tbl("core", "secrets", "s", 0, "from")>>],
      \* SELECT * FROM public.loans l
      [Plain EXCEPT !.tables = <<Tbl("public", "loans", "l", 0, "from")>>],
      \* SELECT * FROM loans l
      [Plain EXCEPT !.tables = <<Tbl("", "loans", "l", 0, "from")>>],
      \* SELECT pg_sleep(10) FROM core.loans l
      [Plain EXCEPT !.functions = {"pg_sleep"}],
      \* SELECT count(*) FROM core.loans l WHERE l.note = 'DELETE'
      [Plain EXCEPT !.functions = {"count"}, !.where = TRUE],
      WithSubqueryAudit }

\* SELECT * FROM core.loans l <kind> JOIN core.branches b ON <on>
JoinLB(kind, shape, preds) ==
    [Plain EXCEPT !.tables = <<Tbl("core", "loans", "l", 0, "from"),
                                Tbl("core", "branches", "b", 0, "join")>>,
                  !.joins = <<Jn(kind, 0, shape, preds)>>]

\* SELECT * FROM core.loans l JOIN <the first n tables of StarArms, each ON its
\* foreign key> [WHERE ...]
JoinStar(n, has_where_) ==
    [Plain EXCEPT
        !.tables = <<Tbl("core", "loans", "l", 0, "from")>> \o
                   [i \in 1..n |-> Tbl("core", StarArms[i].name, StarArms[i].alias, 0, "join")],
        !.joins  = [i \in 1..n |->
                      LET fk == StarArms[i].fk
                          a(t) == IF t.name = "loans" THEN "l" ELSE StarArms[i].alias
                      IN  Jn("INNER", 0, "eq",
                             <<Pred(a(fk.from_table), fk.from_column, a(fk.to_table), fk.to_column)>>)],
        !.where  = has_where_]

StarFamily == {JoinStar(n, w) : n \in 1..Len(StarArms), w \in BOOLEAN}

OnColumns == {"branch_id", "id"}

\* The equalities x.c = y.d over the aliases l and b, qualified or not.
OnPreds == {Pred(lt, lc, rt, rc) : lt \in {"l", "b", ""}, lc \in OnColumns,
                                   rt \in {"l", "b", ""}, rc \in OnColumns}

JoinFamily ==
    {JoinLB("INNER", "eq", <<p>>) : p \in OnPreds}
    \cup
    { \* ... JOIN core.branches b  (no ON), ... , core.branches b
      JoinLB("INNER", "none", <<>>),
      \* ... CROSS JOIN core.branches b
      JoinLB("CROSS", "none", <<>>),
      \* ... LEFT JOIN core.branches b ON l.branch_id > b.id
      JoinLB("LEFT", "other", <<>>),
      \* ... ON l.branch_id = b.id AND l.status = 'x'
      JoinLB("INNER", "and", <<Pred("l", "branch_id", "b", "id"), Pred("l", "status", "", "")>>),
      \* ... ON l.id = b.id AND l.status = 'x'
      JoinLB("INNER", "and", <<Pred("l", "id", "b", "id"), Pred("l", "status", "", "")>>),
      \* ... ON status = 'x' AND kind = 'y'
      JoinLB("INNER", "and", <<Pred("", "status", "", ""), Pred("", "kind", "", "")>>) }

\* Statements with a CTE.
CteFamily ==
    { \* WITH previous_results AS (SELECT * FROM core.loans l LIMIT 5)
      \* SELECT * FROM previous_results pr JOIN core.branches b ON pr.branch_id = b.id
      [Plain EXCEPT !.ctes = {"previous_results"},
                    !.tables = <<Tbl("", "previous_results", "pr", 0, "from"),
                                 Tbl("core", "branches", "b", 0, "join"),
                                 Tbl("core", "loans", "l", 1, "from")>>,
                    !.joins = <<Jn("INNER", 0, "eq", <<Pred("pr", "branch_id", "b", "id")>>)>>,
                    !.limits = <<Lim("sub", 5)>>],
      \* WITH previous_results AS (SELECT * FROM core.loans l)
      \* SELECT * FROM previous_results pr JOIN core.audit a ON pr.id = a.loan_id LIMIT 5
      [Plain EXCEPT !.ctes = {"previous_results"},
                    !.tables = <<Tbl("", "previous_results", "pr", 0, "from"),
                                 Tbl("core", "audit", "a", 0, "join"),
                                 Tbl("core", "loans", "l", 1, "from")>>,
                    !.joins = <<Jn("INNER", 0, "eq", <<Pred("pr", "id", "a", "loan_id")>>)>>,
                    !.limits = <<Lim("outer", 5)>>],
      \* WITH loans AS (SELECT 1 AS one)
      \* SELECT * FROM core.loans l JOIN core.branches b ON l.id = b.id LIMIT 5
      [Plain EXCEPT !.ctes = {"loans"},
                    !.tables = <<Tbl("core", "loans", "l", 0, "from"),
                                 Tbl("core", "branches", "b", 0, "join")>>,
                    !.joins = <<Jn("INNER", 0, "eq", <<Pred("l", "id", "b", "id")>>)>>,
                    !.limits = <<Lim("outer", 5)>>],
      \* WITH audit AS (SELECT 1 AS one)
      \* SELECT * FROM core.loans l WHERE l.id IN (SELECT a.loan_id FROM core.audit a) LIMIT 5
      [WithSubqueryAudit EXCEPT !.ctes = {"audit"}, !.limits = <<Lim("outer", 5)>>] }

\* An alias reused in a subquery:
\* SELECT * FROM core.loans l JOIN core.audit b ON l.branch_id = b.id
\* WHERE l.id IN (SELECT x.id FROM core.loans x JOIN core.branches b ON x.branch_id = b.id)
\* LIMIT 5
AliasReuse ==
    [Plain EXCEPT !.tables = <<Tbl("core", "loans", "l", 0, "from"),
                                Tbl("core", "audit", "b", 0, "join"),
                                Tbl("core", "loans", "x", 1, "from"),
                                Tbl("core", "branches", "b", 1, "join")>>,
                  !.joins = <<Jn("INNER", 0, "eq", <<Pred("l", "branch_id", "b", "id")>>),
                              Jn("INNER", 1, "eq", <<Pred("x", "branch_id", "b", "id")>>)>>,
                  !.where = TRUE,
                  !.limits = <<Lim("outer", 5)>>]

Statements == LimitFamily \cup KindFamily \cup JoinFamily \cup CteFamily \cup {AliasReuse}

(***************************************************************************)
(* Questions, by what the resolver's and the generator's patterns read of  *)
(* them.                                                                   *)
(*   mod          a modification keyword (\bdelete\b, \bdrop\b, ...)       *)
(*   matches      the pattern classes of context_resolver whose regular    *)
(*                expressions match the normalised question                *)
(*   limit_given / limit_value   _parse_limit_value (None / the number)    *)
(*   order_info   _parse_order_clause (NoOrder for None)                   *)
(*   vague, starter, short, mentions, top_branch, simple_list              *)
(*                what _detect_incomplete_intent tests                     *)
(***************************************************************************)
NoOrder == [column |-> "", direction |-> ""]

PlainQuestion(text) ==
    [ text |-> text, mod |-> FALSE, matches |-> {}, limit_given |-> FALSE, limit_value |-> 0, order_info |-> NoOrder,
      vague |-> FALSE, starter |-> FALSE, short |-> FALSE, mentions |-> {},
      top_branch |-> FALSE, simple_list |-> FALSE ]

LimitQuestion(text, n) ==
    [PlainQuestion(text) EXCEPT !.matches = {"limit_change"}, !.limit_given = TRUE,
                                !.limit_value = n, !.short = TRUE]

QCount   == [PlainQuestion("how many loans are there") EXCEPT !.mentions = {"loans"}]
QTop     == [PlainQuestion("show top 2 branches by total lending") EXCEPT
                !.limit_given = TRUE, !.limit_value = 2, !.starter = TRUE,
                !.mentions = {"branches"}, !.top_branch = TRUE]
QVague   == [PlainQuestion("show data") EXCEPT !.vague = TRUE, !.starter = TRUE, !.short = TRUE]
QList    == [PlainQuestion("list loans") EXCEPT !.starter = TRUE, !.short = TRUE,
                !.mentions = {"loans"}, !.simple_list = TRUE]
QDelete  == [PlainQuestion("delete all inactive loans") EXCEPT !.mod = TRUE, !.short = TRUE,
                !.mentions = {"loans"}]
QMake5   == LimitQuestion("make it 5", 5)
QMake0   == LimitQuestion("make it 0", 0)
QMakeBig == LimitQuestion("make it 5000", 5000)
QSort    == [PlainQuestion("sort by name desc") EXCEPT !.matches = {"order_change"},
                !.order_info = [column |-> "name", direction |-> "DESC"], !.short = TRUE]
QHighest == [PlainQuestion("show highest first") EXCEPT !.matches = {"order_change"},
                !.starter = TRUE, !.short = TRUE]
QThose   == [PlainQuestion("what do those borrowers owe") EXCEPT !.matches = {"drilldown"}]
QAlso    == [PlainQuestion("what about branches") EXCEPT !.matches = {"referential"},
                !.short = TRUE, !.mentions = {"branches"}]

Questions == {QCount, QTop, QVague, QList, QDelete, QMake5, QMake0, QMakeBig, QSort,
              QHighest, QThose, QAlso}

(***************************************************************************)
(* core/context_resolver.py                                                *)
(***************************************************************************)
NoIntent == [limit |-> 0, ordering |-> NoOrder, partial |-> ""]

Turn(question, clarified, sql, intent_summary) ==
    [question |-> question, clarified |-> clarified, sql |-> sql, intent_summary |-> intent_summary]

NoTurn == Turn("", "", NoSql, NoIntent)

\* A deque that refuses the new turn when it is full (faulty variant of
\* deque_append).
deque_append_keep_oldest(turns, turn) ==
    IF Len(turns) < max_turns THEN Append(turns, turn) ELSE turns

\* deque(maxlen=max_turns).append
deque_append(turns, turn) ==
    IF Len(turns) < max_turns THEN Append(turns, turn)
    ELSE Append(SubSeq(turns, 2, Len(turns)), turn)

\* add_turn(session_id, question, sql, intent_summary)
add_turn(all, session_id, turn) ==
    [all EXCEPT ![session_id] = deque_append(all[session_id], turn)]

\* The oldest turn with SQL (faulty variant of anchor_of).
anchor_of_oldest(turns) ==
    LET withSql == {i \in DOMAIN turns : turns[i].sql.kind = "sql"}
    IN  IF withSql = {} THEN NoTurn
        ELSE turns[CHOOSE i \in withSql : \A j \in withSql : i <= j]

\* The most recent turn with SQL (NoTurn when there is none).
anchor_of(turns) ==
    LET withSql == {i \in DOMAIN turns : turns[i].sql.kind = "sql"}
    IN  IF withSql = {} THEN NoTurn
        ELSE turns[CHOOSE i \in withSql : \A j \in withSql : j <= i]

NewContext ==
    [is_related |-> FALSE, continuation_type |-> "NEW", anchor_turn |-> NoTurn,
     refinement_instruction |-> ""]

Related(type, anchor, instruction) ==
    [is_related |-> TRUE, continuation_type |-> type, anchor_turn |-> anchor,
     refinement_instruction |-> instruction]

\* The ORDER BY patterns tried before the metric patterns (faulty variant of
\* detect_refinement).
detect_refinement_order_first(q) ==
    LET order == <<"limit_change", "order_change", "metric_change", "filter_change",
                   "time_window_change">>
        hits == {i \in DOMAIN order : order[i] \in q.matches}
    IN  IF hits = {} THEN ""
        ELSE order[CHOOSE i \in hits : \A j \in hits : i <= j]

\* _detect_refinement: the pattern lists are tried in this order and the first
\* list with a matching pattern gives the instruction ("" for None).
RefinementOrder ==
    <<"limit_change", "metric_change", "order_change", "filter_change", "time_window_change">>

detect_refinement(q) ==
    LET hits == {i \in DOMAIN RefinementOrder : RefinementOrder[i] \in q.matches}
    IN  IF hits = {} THEN ""
        ELSE RefinementOrder[CHOOSE i \in hits : \A j \in hits : i <= j]

\* _is_drilldown, _is_referential
is_drilldown(q) == "drilldown" \in q.matches

is_referential(q) == "referential" \in q.matches

\* resolve_context(session_id, current_question) over the session's turns
resolve_context(turns, q) ==
    IF turns = <<>> THEN NewContext
    ELSE IF anchor_of(turns) = NoTurn THEN NewContext
    ELSE IF detect_refinement(q) # ""
    THEN Related("REFINE", anchor_of(turns), detect_refinement(q))
    ELSE IF is_drilldown(q) THEN Related("DRILLDOWN", anchor_of(turns), "")
    ELSE IF is_referential(q) THEN Related("REFINE", anchor_of(turns), "")
    ELSE NewContext

(***************************************************************************)
(* core/llm_sql_generator.py                                               *)
(***************************************************************************)
\* _rewrite_limit: every LIMIT <digits> of the text is replaced; one is appended
\* only when the text holds none.
rewrite_limit(s, new_limit) ==
    IF s.kind # "sql" THEN s
    ELSE IF s.limits # <<>>
    THEN [s EXCEPT !.limits = [i \in DOMAIN s.limits |-> Lim(s.limits[i].lvl, new_limit)]]
    ELSE [s EXCEPT !.limits = <<Lim("outer", new_limit)>>]

\* A query level that ends up with two ORDER BY clauses no longer parses.
DoubleOrder(orders) ==
    \E i, j \in DOMAIN orders : i # j /\ orders[i].lvl = orders[j].lvl /\ orders[i].lvl = "outer"

\* _rewrite_order: every ORDER BY <col> ASC|DESC of the text is replaced; when
\* there is none, the clause is inserted before each occurrence of the text of the
\* first LIMIT, and when there is no LIMIT either it is appended.
rewrite_order(s, order_info) ==
    IF s.kind # "sql" \/ order_info = NoOrder THEN s
    ELSE
    LET withDir == {i \in DOMAIN s.orders : s.orders[i].dir # ""}
        sameText == SelectSeq(s.limits, LAMBDA l : l.n = s.limits[1].n)
        inserted == [i \in DOMAIN sameText |->
                        Ord(sameText[i].lvl, order_info.column, order_info.direction)]
        appended == <<Ord("outer", order_info.column, order_info.direction)>>
        result == IF withDir # {}
                  THEN [i \in DOMAIN s.orders |->
                          IF i \in withDir
                          THEN Ord(s.orders[i].lvl, order_info.column, order_info.direction)
                          ELSE s.orders[i]]
                  ELSE IF s.limits # <<>> THEN s.orders \o inserted
                  ELSE s.orders \o appended
    IN  [s EXCEPT !.orders = result, !.parses = s.parses /\ ~DoubleOrder(result)]

\* _detect_incomplete_intent: "" when no clarification is needed.
detect_incomplete_intent(q, rules) ==
    LET table_tokens == {t.name : t \in rules.tables}
        table_mentioned == q.mentions \cap table_tokens # {}
    IN  IF q.vague \/ (q.starter /\ ~table_mentioned /\ q.short) THEN "needs_table"
        ELSE IF q.top_branch THEN "needs_metric"
        ELSE IF q.simple_list THEN "needs_limit"
        ELSE ""

\* SQLGenerationResult; the confidence is kept in hundredths: 0.99 on a
\* deterministic rewrite, 0.0 on a refusal or a clarification, the provider's
\* value after the provider call.
GenResult(sql, intent_summary, clarification, path) ==
    [sql |-> sql, intent_summary |-> intent_summary, clarification |-> clarification,
     path |-> path, confidence |-> IF path = "deterministic" THEN 99 ELSE 0]

\* generate_sql up to the call of the LLM provider: the refusal, the deterministic
\* rewrite or the clarification it returns, or path "llm" when it goes on to the
\* retrieval and the provider call.
generate_sql_local(q, rules, ctx, clarification_answer) ==
    LET prev == ctx.anchor_turn
        should_check_clarification ==
            clarification_answer = "" /\ ctx.continuation_type = "NEW"
    IN  IF q.mod THEN GenResult(NoSql, NoIntent, "refusal", "refusal")
        ELSE IF ctx.is_related /\ prev.sql.kind = "sql"
                /\ ctx.refinement_instruction = "limit_change"
                /\ q.limit_given /\ q.limit_value # 0
        THEN GenResult(rewrite_limit(prev.sql, q.limit_value),
                       [prev.intent_summary EXCEPT !.limit = q.limit_value],
                       "", "deterministic")
        ELSE IF ctx.is_related /\ prev.sql.kind = "sql"
                /\ ctx.refinement_instruction = "order_change"
                /\ q.order_info # NoOrder
        THEN GenResult(rewrite_order(prev.sql, q.order_info),
                       [prev.intent_summary EXCEPT !.ordering = q.order_info],
                       "", "deterministic")
        ELSE IF should_check_clarification /\ detect_incomplete_intent(q, rules) # ""
        THEN GenResult(NoSql,
                       [NoIntent EXCEPT !.partial = detect_incomplete_intent(q, rules)],
                       detect_incomplete_intent(q, rules), "clarification")
        ELSE GenResult(NoSql, NoIntent, "", "llm")

\* What the provider answers: a statement with the intent summary describing it.
LlmResponse(s) ==
    [sql |-> s, confidence |-> 90,
     intent_summary |-> [NoIntent EXCEPT !.limit = IF s.kind = "sql" THEN get_limit_value(s) ELSE 0]]

\* generate_sql after the provider call: response.get("sql", "").strip()
generate_sql_llm(response) ==
    [GenResult(IF response.sql.kind = "none" THEN BlankSql ELSE response.sql,
               response.intent_summary, "", "llm")
        EXCEPT !.confidence = response.confidence]

(***************************************************************************)
(* core/safe_executor.py and core/result_formatter.py                      *)
(***************************************************************************)
OuterLimits(s) == SelectSeq(s.limits, LAMBDA l : l.lvl = "outer")

\* The number of rows the database returns for a statement that yields `avail`
\* rows before its outer LIMIT.
FetchedRows(s, avail) ==
    IF OuterLimits(s) = <<>> THEN avail ELSE Min(avail, OuterLimits(s)[1].n)

\* An exception of the database driver: its text, and which of the words
\* _sanitize_error looks for the lowered text contains.
DbError(text, has) == [text |-> text, has |-> has]

NoDbError == DbError("", {})

DbErrors ==
    { DbError("canceling statement due to statement timeout", {"timeout"}),
      DbError("connection timeout expired", {"timeout", "connection"}),
      DbError("connection is closed", {"connection"}),
      DbError("syntax error at or near FORM", {"syntax"}),
      DbError("syntax error in connection options", {"connection", "syntax"}),
      DbError("relation core.secrets does not exist", {}) }

\* The awaits of execute_query that may raise.
ExecStages == {"acquire", "begin", "set_timeout", "fetch", "commit"}

\* The exception that reaches `except Exception as e` of execute_query: a failure
\* after BEGIN runs ROLLBACK first, and a failure of the ROLLBACK takes the place
\* of the exception it was handling.
raised_in_execute(stage, first, rollback) ==
    IF stage \in {"set_timeout", "fetch", "commit"} /\ rollback # NoDbError THEN rollback
    ELSE first

\* The connection test made before the timeout test (faulty variant of
\* sanitize_error).
sanitize_error_connection_first(error) ==
    IF "connection" \in error.has THEN "Database connection error. Please try again."
    ELSE IF "timeout" \in error.has
    THEN "Query execution time limit exceeded. Try adding more filters to reduce result size."
    ELSE IF "syntax" \in error.has THEN "SQL syntax error. Please rephrase your question."
    ELSE "An error occurred while executing the query. Please try rephrasing your question."

\* _sanitize_error
sanitize_error(error) ==
    IF "timeout" \in error.has
    THEN "Query execution time limit exceeded. Try adding more filters to reduce result size."
    ELSE IF "connection" \in error.has THEN "Database connection error. Please try again."
    ELSE IF "syntax" \in error.has THEN "SQL syntax error. Please rephrase your question."
    ELSE "An error occurred while executing the query. Please try rephrasing your question."

\* RuntimeError(f"Query execution failed: {error_msg}"), and str() of it
execution_failure(error_msg) == [prefix |-> "Query execution failed: ", message |-> error_msg]

\* ExecutionResult: rows are kept by their number.
ExecutionResult(rows) == [rows |-> rows, row_count |-> rows]

(***************************************************************************)
(* KB files.  A file is kept by the version stamped into it and by the     *)
(* schema it was built from; the compiled rules it holds are recomputed    *)
(* from those.                                                             *)
(***************************************************************************)
NoFile == [version |-> 0, schema |-> "none"]

KbFile(version, schema) == [version |-> version, schema |-> schema]

\* RulesCompiler.load_compiled_rules: None (NoFile) when the file does not exist.
load_compiled_rules(file) == file

RulesOf(file) == compile_rules(Schemas[file.schema], file.version)

(***************************************************************************)
(* api/routes.py: /query and /clarify                                      *)
(***************************************************************************)
ReqSlots   == {"r1", "r2"}
SessionIds == {"s1", "s2"}

\* POST /query {question, session_id}
Query(sid, q) == [endpoint |-> "query", session_id |-> sid, question |-> q, answer |-> ""]

\* POST /clarify {original_question, clarification_answer, session_id}
Clarify(sid, q, a) == [endpoint |-> "clarify", session_id |-> sid, question |-> q, answer |-> a]

DbRowCounts == {0, 150, 2500}

NoGen == GenResult(NoSql, NoIntent, "", "")
NoVal == Rejected(NoSql, {})

NoResp ==
    [status |-> 0, kind |-> "", sql |-> NoSql, rows |-> 0, row_count |-> 0, warnings |-> {},
     safety_explanation |-> {}, detail |-> "", kb_version |-> 0]

Resp(status, kind, sql, detail) ==
    [NoResp EXCEPT !.status = status, !.kind = kind, !.sql = sql, !.detail = detail]

IdleReq ==
    [ pc |-> "idle", endpoint |-> "", session_id |-> "", question |-> PlainQuestion(""),
      answer |-> "", entry_version |-> 0, rules |-> NoFile, retrieval_version |-> 0,
      validation_version |-> 0, ctx |-> NewContext, gen |-> NoGen, val |-> NoVal,
      db_error |-> NoDbError, resp |-> NoResp ]

OffReq == [IdleReq EXCEPT !.pc = "off"]

Done(req, resp) == [req EXCEPT !.pc = "done", !.resp = resp]

\* Provenance taken from the file as it is when the response is built (faulty
\* variant of provenance_rules).
provenance_rules_reread(req, disk) == disk

\* The snapshot each stage of a request works with.
retrieval_rules(req, disk) == req.rules
validator_rules(req, disk) == req.rules
provenance_rules(req, disk) == req.rules

\* The error branch of a handler storing the turn all the same (faulty variant of
\* sessions_after_error).
sessions_after_error_stored(all, session_id, turn) == add_turn(all, session_id, turn)

\* An exception of execute_query leaves the try block before add_turn is reached.
sessions_after_error(all, session_id, turn) == all

\* A handler without the is_valid guard (faulty variant of may_execute).
may_execute_unguarded(validation_result) == TRUE

\* routes.py: `if not validation_result.is_valid` guards the executor call.
may_execute(validation_result) == validation_result.is_valid

\* routes.py: execute_query(sql=validation_result.sql)
sql_to_execute(sql_result, validation_result) == validation_result.sql

\* f"Validation failed: {'; '.join(validation_result.errors)}": the text /query
\* puts into safety_explanation and /clarify into the detail of its 400.
rejection_text(errors) == {"validation_failed"} \cup errors

\* The handler from the result of generate_sql to the executor call: the refusal
\* and clarification answers, the empty-SQL guard, the validation and the rejection.
AfterGenerate(req, gen, disk) ==
    LET r1 == [req EXCEPT !.gen = gen]
        q  == req.endpoint = "query"
    IN  IF q /\ gen.clarification = "refusal"
        THEN Done(r1, Resp(200, "refusal", NoSql, "read_only_system"))
        ELSE IF q /\ gen.clarification # ""
        THEN Done(r1, Resp(200, "clarification", NoSql, gen.clarification))
        ELSE IF gen.sql.kind # "sql"
        THEN IF q THEN Done(r1, [Resp(200, "empty_sql", gen.sql, "empty_sql")
                                    EXCEPT !.warnings = {"empty_sql_generated"},
                                           !.safety_explanation = {"empty_sql_returned"}])
                  ELSE Done(r1, Resp(400, "empty_sql", NoSql, "empty_sql"))
        ELSE
        LET rules == validator_rules(req, disk)
            val == validate_sql(gen.sql, RulesOf(rules))
            r2  == [r1 EXCEPT !.val = val, !.validation_version = rules.version]
        IN  IF ~may_execute(val)
            THEN IF q THEN Done(r2, [Resp(200, "rejected", gen.sql, "validation_failed")
                                        EXCEPT !.warnings = val.warnings,
                                               !.safety_explanation = rejection_text(val.errors)])
                      ELSE Done(r2, Resp(400, "rejected", NoSql, rejection_text(val.errors)))
            ELSE [r2 EXCEPT !.pc = "exec"]

\* The executor calls a step of the handler makes.
CallsOf(req) ==
    IF req.pc = "exec" THEN <<[sql |-> sql_to_execute(req.gen, req.val)]>> ELSE <<>>

\* A client sends POST /query or POST /clarify.
Receive(r) ==
    /\ app.state = "serving"
    /\ toAdmit > 0
    /\ reqs[r].pc = "idle"
    /\ \E in \in clientInputs :
          reqs' = [reqs EXCEPT ![r] =
                     [IdleReq EXCEPT !.pc = "start", !.endpoint = in.endpoint,
                                     !.session_id = in.session_id, !.question = in.question,
                                     !.answer = in.answer,
                                     !.entry_version = sched.current_version]]
    /\ toAdmit' = toAdmit - 1
    /\ UNCHANGED <<execVars, retrVars, introVars, kbVars, mcVars, sessions, added, executed, llmOutputs, clientInputs>>

\* await rules_compiler.load_compiled_rules(); no rules: HTTP 503, which the
\* `except Exception` of /query turns into a 500.
LoadRules(r) ==
    /\ reqs[r].pc = "start"
    /\ LET rules == load_compiled_rules(diskRules)
           req == reqs[r]
       IN  reqs' = [reqs EXCEPT ![r] =
                IF rules = NoFile
                THEN Done(req, Resp(IF req.endpoint = "query" THEN 500 ELSE 503,
                                    "kb_unavailable", NoSql, "kb_not_initialized"))
                ELSE [req EXCEPT !.pc = "loaded", !.rules = rules]]
    /\ UNCHANGED <<execVars, retrVars, introVars, kbVars, mcVars, sessions, added, executed, llmOutputs, clientInputs, toAdmit>>

\* resolve_context and generate_sql up to the provider call; on the deterministic
\* path and on a refusal or clarification the handler runs on to its next await.
Generate(r) ==
    /\ reqs[r].pc = "loaded"
    /\ LET req == reqs[r]
           ctx == resolve_context(sessions[req.session_id], req.question)
           gen == generate_sql_local(req.question, RulesOf(req.rules), ctx, req.answer)
           r1  == [req EXCEPT !.ctx = ctx]
           nxt == IF gen.path = "llm"
                  THEN [r1 EXCEPT !.pc = "llm",
                                  !.retrieval_version = retrieval_rules(req, diskRules).version]
                  ELSE AfterGenerate(r1, gen, diskRules)
       IN  /\ reqs' = [reqs EXCEPT ![r] = nxt]
           /\ executed' = [executed EXCEPT ![r] = CallsOf(nxt)]
    /\ UNCHANGED <<execVars, retrVars, introVars, kbVars, mcVars, sessions, added, llmOutputs, clientInputs, toAdmit>>

\* The provider answers; a null "sql" makes .strip() raise, like a provider error.
LlmAnswer(r) ==
    /\ reqs[r].pc = "llm"
    /\ \E response \in llmOutputs :
          LET req == reqs[r]
              nxt == IF response.sql.kind = "none"
                     THEN Done(req, Resp(500, "error", NoSql, "generation_failed"))
                     ELSE AfterGenerate(req, generate_sql_llm(response), diskRules)
          IN  /\ reqs' = [reqs EXCEPT ![r] = nxt]
              /\ executed' = [executed EXCEPT ![r] = CallsOf(nxt)]
    /\ UNCHANGED <<execVars, retrVars, introVars, kbVars, mcVars, sessions, added, llmOutputs, clientInputs, toAdmit>>

\* The provider call raises.
LlmFail(r) ==
    /\ reqs[r].pc = "llm"
    /\ reqs' = [reqs EXCEPT ![r] = Done(reqs[r], Resp(500, "error", NoSql, "generation_failed"))]
    /\ UNCHANGED <<execVars, retrVars, introVars, kbVars, mcVars, sessions, added, executed, llmOutputs, clientInputs, toAdmit>>

\* execute_query returns: format_result, add_turn and the response.
ExecReturn(r) ==
    /\ reqs[r].pc = "exec"
    /\ \E avail \in DbRowCounts :
          LET req == reqs[r]
              sql == executed[r][1].sql
              execution_result == ExecutionResult(FetchedRows(sql, avail))
              question == req.question.text
              clarified == IF req.endpoint = "clarify" THEN req.answer ELSE ""
              resp == [NoResp EXCEPT !.status = 200, !.kind = "rows", !.sql = req.val.sql,
                                     !.rows = execution_result.rows,
                                     !.row_count = execution_result.row_count,
                                     !.warnings = req.val.warnings,
                                     !.safety_explanation = req.val.safety_explanation,
                                     !.kb_version = provenance_rules(req, diskRules).version]
          IN  /\ reqs' = [reqs EXCEPT ![r] = Done(req, resp)]
              /\ sessions' = add_turn(sessions, req.session_id,
                                      Turn(question, clarified, req.val.sql, req.gen.intent_summary))
              /\ added' = [added EXCEPT ![req.session_id] = Append(@,
                                      Turn(question, clarified, req.val.sql, req.gen.intent_summary))]
    /\ UNCHANGED <<execVars, retrVars, introVars, kbVars, mcVars, executed, llmOutputs, clientInputs, toAdmit>>

\* execute_query raises RuntimeError with the sanitised message, and the handler
\* answers HTTP 500 with detail=str(e): no turn.  db_error keeps the exception the
\* driver raised.
ExecFail(r) ==
    /\ reqs[r].pc = "exec"
    /\ \E stage \in ExecStages, first \in DbErrors, rollback \in DbErrors \cup {NoDbError} :
          LET e == raised_in_execute(stage, first, rollback)
          IN  reqs' = [reqs EXCEPT ![r] =
                         Done([reqs[r] EXCEPT !.db_error = e],
                              Resp(500, "error", NoSql, execution_failure(sanitize_error(e))))]
    /\ sessions' = sessions_after_error(sessions, reqs[r].session_id,
                                        Turn(reqs[r].question.text, "", reqs[r].val.sql,
                                             reqs[r].gen.intent_summary))
    /\ UNCHANGED <<execVars, retrVars, introVars, kbVars, mcVars, added, executed, llmOutputs, clientInputs, toAdmit>>

\* The response has been sent; the handler's frame is gone.
Finish(r) ==
    /\ reqs[r].pc = "done"
    /\ reqs' = [reqs EXCEPT ![r] = IdleReq]
    /\ executed' = [executed EXCEPT ![r] = <<>>]
    /\ UNCHANGED <<execVars, retrVars, introVars, kbVars, mcVars, sessions, added, llmOutputs, clientInputs, toAdmit>>

NextReq ==
    \E r \in ReqSlots :
        \/ Receive(r)
        \/ LoadRules(r)
        \/ Generate(r)
        \/ LlmAnswer(r)
        \/ LlmFail(r)
        \/ ExecReturn(r)
        \/ ExecFail(r)
        \/ Finish(r)

(***************************************************************************)
(* scheduler/kb_refresh.py, core/rules_compiler.py (files), api/main.py    *)
(***************************************************************************)
\* The callers of refresh_knowledge_base in the process: startup_kb_init, the
\* interval job, and any other caller of the public method.
Callers == {"startup", "tick", "other"}

PipelineStages == {"introspect", "merge", "compile", "swap"}

NoResult == [status |-> "", version |-> 0, error |-> ""]

IdleTask == [pc |-> "idle", run |-> 0, schema |-> "none", result |-> NoResult]

\* KBRefreshScheduler.__init__
NewScheduler ==
    [ last_refresh_time |-> 0, last_refresh_status |-> "never_run", last_refresh_error |-> "",
      current_version |-> 0, is_refreshing |-> FALSE ]

\* An except clause that also forgets the published version (faulty variant of
\* refresh_failed).
refresh_failed_forgetful(s, error) ==
    [s EXCEPT !.last_refresh_status = "failed", !.last_refresh_error = error,
              !.current_version = 0, !.is_refreshing = FALSE]

\* The except clause alone, with no finally clause after it (faulty variant of
\* refresh_failed).
refresh_failed_flag_kept(s, error) ==
    [s EXCEPT !.last_refresh_status = "failed", !.last_refresh_error = error]

\* The except clause of refresh_knowledge_base followed by its finally clause.
refresh_failed(s, error) ==
    [s EXCEPT !.last_refresh_status = "failed", !.last_refresh_error = error,
              !.is_refreshing = FALSE]

\* Lines 98-106 of refresh_knowledge_base followed by its finally clause.
refresh_succeeded(s, version, now) ==
    [s EXCEPT !.last_refresh_time = now, !.last_refresh_status = "success",
              !.last_refresh_error = "", !.current_version = version,
              !.is_refreshing = FALSE]

\* A refresh that does not look at the flag (faulty variant of refresh_guard).
refresh_guard_absent(s) == FALSE

\* The guard at the top of refresh_knowledge_base.
refresh_guard(s) == s.is_refreshing

Returned(task, status, version, error) ==
    [task EXCEPT !.pc = "returned",
                 !.result = [status |-> status, version |-> version, error |-> error]]

MayCall(c) ==
    CASE c = "startup" -> app.state = "starting"
      [] c = "tick"    -> app.scheduler_started
      [] OTHER         -> app.state = "serving"

\* refresh_knowledge_base is called: skipped when a refresh is running, else the
\* flag is set and the pipeline starts.
RefreshCall(c) ==
    /\ tasks[c].pc = "idle"
    /\ MayCall(c)
    /\ IF refresh_guard(sched)
       THEN /\ tasks' = [tasks EXCEPT ![c] = Returned(IdleTask, "skipped", 0, "")]
            /\ UNCHANGED <<sched, runs>>
       ELSE /\ runs <= MaxRuns
            /\ runs' = runs + 1
            /\ sched' = [sched EXCEPT !.is_refreshing = TRUE]
            /\ tasks' = [tasks EXCEPT ![c] = [IdleTask EXCEPT !.pc = "introspect", !.run = runs + 1]]
    /\ UNCHANGED <<execVars, retrVars, introVars, diskSchema, diskSemantic, diskRules, tempSchema, tempSemantic, tempRules,
                   app, mcVars, reqVars>>

\* Step 1: build_kb_schema and the write of kb_schema_temp.json.
Introspect(c) ==
    /\ tasks[c].pc = "introspect"
    /\ \E name \in LiveSchemas :
          /\ tempSchema' = KbFile(tasks[c].run, name)
          /\ tasks' = [tasks EXCEPT ![c] = [@ EXCEPT !.pc = "merge", !.schema = name]]
    /\ UNCHANGED <<execVars, retrVars, introVars, diskSchema, diskSemantic, diskRules, tempSemantic, tempRules, sched, runs,
                   app, mcVars, reqVars>>

\* Step 2: merge_with_schema and the write of kb_semantic_temp.json.
Merge(c) ==
    /\ tasks[c].pc = "merge"
    /\ tempSemantic' = KbFile(tasks[c].run, tasks[c].schema)
    /\ tasks' = [tasks EXCEPT ![c] = [@ EXCEPT !.pc = "compile"]]
    /\ UNCHANGED <<execVars, retrVars, introVars, diskSchema, diskSemantic, diskRules, tempSchema, tempRules, sched, runs,
                   app, mcVars, reqVars>>

\* Step 3: compile_rules reads the temp schema, the rules are validated and
\* written to compiled_rules_temp.json; rules that fail validation raise.
Compile(c) ==
    /\ tasks[c].pc = "compile"
    /\ LET compiled == compile_rules(Schemas[tempSchema.schema], tasks[c].run)
       IN  IF validate_compiled_rules(compiled)
           THEN /\ tempRules' = KbFile(compiled.version, tempSchema.schema)
                /\ tasks' = [tasks EXCEPT ![c] = [@ EXCEPT !.pc = "swap"]]
                /\ UNCHANGED sched
           ELSE /\ tasks' = [tasks EXCEPT ![c] = Returned(@, "failed", 0, "validation")]
                /\ sched' = refresh_failed(sched, "validation")
                /\ UNCHANGED tempRules
    /\ UNCHANGED <<execVars, retrVars, introVars, diskSchema, diskSemantic, diskRules, tempSchema, tempSemantic, runs,
                   app, mcVars, reqVars>>

\* A step before the swap raises (the database, the file system, the merge).
StepFails(c) ==
    /\ tasks[c].pc \in {"introspect", "merge", "compile"}
    /\ tasks' = [tasks EXCEPT ![c] = Returned(@, "failed", 0, tasks[c].pc)]
    /\ sched' = refresh_failed(sched, tasks[c].pc)
    /\ UNCHANGED <<execVars, retrVars, introVars, diskSchema, diskSemantic, diskRules, tempSchema, tempSemantic, tempRules,
                   runs, app, mcVars, reqVars>>

\* atomic_swap: the three renames in order, the first `done` of them carried out.
atomic_swap(files, done) ==
    [ diskSchema   |-> IF done >= 1 THEN files.tempSchema ELSE files.diskSchema,
      tempSchema   |-> IF done >= 1 THEN NoFile ELSE files.tempSchema,
      diskSemantic |-> IF done >= 2 THEN files.tempSemantic ELSE files.diskSemantic,
      tempSemantic |-> IF done >= 2 THEN NoFile ELSE files.tempSemantic,
      diskRules    |-> IF done >= 3 THEN files.tempRules ELSE files.diskRules,
      tempRules    |-> IF done >= 3 THEN NoFile ELSE files.tempRules ]

Files ==
    [ diskSchema |-> diskSchema, tempSchema |-> tempSchema, diskSemantic |-> diskSemantic,
      tempSemantic |-> tempSemantic, diskRules |-> diskRules, tempRules |-> tempRules ]

SetFiles(f) ==
    /\ diskSchema' = f.diskSchema
    /\ tempSchema' = f.tempSchema
    /\ diskSemantic' = f.diskSemantic
    /\ tempSemantic' = f.tempSemantic
    /\ diskRules' = f.diskRules
    /\ tempRules' = f.tempRules

\* Step 4 and the state update after it, up to the return.  Nothing on this path
\* calls metadata_cache.invalidate.
Swap(c) ==
    /\ tasks[c].pc = "swap"
    /\ SetFiles(atomic_swap(Files, 3))
    /\ sched' = refresh_succeeded(sched, tempRules.version, tasks[c].run)
    /\ tasks' = [tasks EXCEPT ![c] = Returned(@, "success", tempRules.version, "")]
    /\ UNCHANGED <<execVars, retrVars, introVars, runs, app, mcVars, reqVars>>

\* A rename of atomic_swap raises after `done` renames.
SwapFails(c) ==
    /\ tasks[c].pc = "swap"
    /\ \E done \in 0..2 :
          SetFiles(atomic_swap(Files, done))
    /\ sched' = refresh_failed(sched, "swap")
    /\ tasks' = [tasks EXCEPT ![c] = Returned(@, "failed", 0, "swap")]
    /\ UNCHANGED <<execVars, retrVars, introVars, runs, app, mcVars, reqVars>>

\* The interval job or another caller gets its result.
CallReturns(c) ==
    /\ c # "startup"
    /\ tasks[c].pc = "returned"
    /\ tasks' = [tasks EXCEPT ![c] = IdleTask]
    /\ UNCHANGED <<execVars, retrVars, introVars, diskSchema, diskSemantic, diskRules, tempSchema, tempSemantic, tempRules,
                   sched, runs, app, mcVars, reqVars>>

\* startup_kb_init after its refresh returned, then lifespan: start_scheduler and
\* the application serves; without a fallback startup_kb_init raises.
startup_after_refresh(s, result, rules) ==
    IF result.status = "failed" /\ rules # NoFile
    THEN [s EXCEPT !.current_version = rules.version,
                   !.last_refresh_status = "using_last_known_good"]
    ELSE s

\* A startup that never raises (faulty variant of startup_raises).
startup_raises_never(result, rules) == FALSE

\* startup_kb_init raises RuntimeError: the refresh failed and no file exists.
startup_raises(result, rules) == result.status = "failed" /\ rules = NoFile

StartupContinues ==
    /\ tasks["startup"].pc = "returned"
    /\ app.state = "starting"
    /\ LET result == tasks["startup"].result
           rules == load_compiled_rules(diskRules)
       IN  /\ sched' = startup_after_refresh(sched, result, rules)
           /\ app' = IF startup_raises(result, rules)
                     THEN [state |-> "aborted", scheduler_started |-> FALSE]
                     ELSE [state |-> "serving", scheduler_started |-> TRUE]
    /\ tasks' = [tasks EXCEPT !["startup"] = [@ EXCEPT !.pc = "finished"]]
    /\ UNCHANGED <<execVars, retrVars, introVars, diskSchema, diskSemantic, diskRules, tempSchema, tempSemantic, tempRules,
                   runs, mcVars, reqVars>>

NextKB ==
    \/ \E c \in Callers :
        \/ RefreshCall(c)
        \/ Introspect(c)
        \/ Merge(c)
        \/ Compile(c)
        \/ StepFails(c)
        \/ Swap(c)
        \/ SwapFails(c)
        \/ CallReturns(c)
    \/ StartupContinues

(***************************************************************************)
(* core/metadata_cache.py                                                  *)
(*   An entry keeps the timestamp's presence, the value (0 stands for None *)
(*   in the MAX(date) cache) and the refresh that was the latest one when  *)
(*   the value was cached.                                                 *)
(***************************************************************************)
MaxDateKey == "max_date:core.loans:created_at"
RowEstimateKey == "row_estimate:core.loans"
CacheKeys == {MaxDateKey, RowEstimateKey}
MetaValues == {0, 1}

NoEntry == [stamped |-> FALSE, value |-> 0, cached_at |-> 0]

NoRead == [key |-> "", value |-> 0, from_cache |-> FALSE, cached_at |-> 0, read_at |-> 0]

\* _get_cached: [hit, value, cache]; an expired entry loses its timestamp, and the
\* value left behind, which nothing reads any more, goes with it.
get_cached(cache, key, expired) ==
    IF ~cache[key].stamped THEN [hit |-> FALSE, value |-> 0, cache |-> cache]
    ELSE IF expired
    THEN [hit |-> FALSE, value |-> 0, cache |-> [cache EXCEPT ![key] = NoEntry]]
    ELSE [hit |-> TRUE, value |-> cache[key].value, cache |-> cache]

\* _set_cached
set_cached(cache, key, value, now) ==
    [cache EXCEPT ![key] = [stamped |-> TRUE, value |-> value, cached_at |-> now]]

\* invalidate(table=None)
invalidate(cache) == [k \in DOMAIN cache |-> NoEntry]

\* `if cached_value is not None`: a cached None of the MAX(date) cache is a miss.
IsCachedAnswer(key, got) == got.hit /\ (key = RowEstimateKey \/ got.value # 0)

\* get_max_date / get_table_row_estimate answered from the cache.
CacheHit(key) ==
    /\ app.state = "serving"
    /\ \E expired \in BOOLEAN :
          LET got == get_cached(mcache, key, expired)
          IN  /\ IsCachedAnswer(key, got)
              /\ mcache' = got.cache
              /\ cacheReads' = [key |-> key, value |-> got.value, from_cache |-> TRUE,
                                cached_at |-> mcache[key].cached_at,
                                read_at |-> sched.last_refresh_time]
    /\ UNCHANGED <<execVars, retrVars, introVars, kbVars, dbMeta, reqVars>>

\* ... answered by the database and cached.
CacheMiss(key) ==
    /\ app.state = "serving"
    /\ \E expired \in BOOLEAN :
          LET got == get_cached(mcache, key, expired)
          IN  /\ ~IsCachedAnswer(key, got)
              /\ mcache' = set_cached(got.cache, key, dbMeta[key], sched.last_refresh_time)
              /\ cacheReads' = [key |-> key, value |-> dbMeta[key], from_cache |-> FALSE,
                                cached_at |-> sched.last_refresh_time,
                                read_at |-> sched.last_refresh_time]
    /\ UNCHANGED <<execVars, retrVars, introVars, kbVars, dbMeta, reqVars>>

\* ... the metadata query raises: None (0 rows) is answered, nothing is cached.
CacheQueryFails(key) ==
    /\ app.state = "serving"
    /\ \E expired \in BOOLEAN :
          LET got == get_cached(mcache, key, expired)
          IN  /\ ~IsCachedAnswer(key, got)
              /\ mcache' = got.cache
              /\ cacheReads' = [NoRead EXCEPT !.key = key, !.read_at = sched.last_refresh_time]
    /\ UNCHANGED <<execVars, retrVars, introVars, kbVars, dbMeta, reqVars>>

\* The data changes: another MAX(date), another row estimate.
DbChanges(key) ==
    /\ \E v \in MetaValues \ {dbMeta[key]} : dbMeta' = [dbMeta EXCEPT ![key] = v]
    /\ UNCHANGED <<execVars, retrVars, introVars, kbVars, mcache, cacheReads, reqVars>>

NextCache ==
    \E key \in CacheKeys :
        \/ CacheHit(key)
        \/ CacheMiss(key)
        \/ CacheQueryFails(key)
        \/ DbChanges(key)

(***************************************************************************)
(* core/context_resolver.py called directly: a sequence of add_turn calls  *)
(* on a session and one resolve_context call for a question.              *)
(***************************************************************************)
\* The turns handed to add_turn: two with SQL, one without.
TurnInputs ==
    { Turn("first", "", Plain, NoIntent),
      Turn("second", "", [Plain EXCEPT !.limits = <<Lim("outer", 5)>>],
           [NoIntent EXCEPT !.limit = 5]),
      Turn("third", "", NoSql, NoIntent) }

PatternClasses ==
    {"limit_change", "metric_change", "order_change", "filter_change", "time_window_change",
     "drilldown", "referential"}

\* Every combination of pattern classes a question may match.
MatchSets == SUBSET PatternClasses

QuestionInputs == {[PlainQuestion("follow-up") EXCEPT !.matches = m] : m \in MatchSets}

\* context_resolver.add_turn(session_id, question, sql, intent_summary)
AddTurnCall(sid) ==
    /\ Len(added[sid]) < MaxAdds
    /\ \E turn \in TurnInputs :
          /\ sessions' = add_turn(sessions, sid, turn)
          /\ added' = [added EXCEPT ![sid] = Append(@, turn)]
    /\ UNCHANGED <<execVars, retrVars, introVars, kbVars, mcVars, reqs, executed, llmOutputs, clientInputs, toAdmit>>

\* context_resolver.resolve_context(session_id, current_question)
ResolveCall(r, sid) ==
    /\ reqs[r].pc = "asked"
    /\ reqs' = [reqs EXCEPT ![r] = [@ EXCEPT !.pc = "resolved", !.session_id = sid,
                                             !.ctx = resolve_context(sessions[sid],
                                                                    reqs[r].question)]]
    /\ UNCHANGED <<execVars, retrVars, introVars, kbVars, mcVars, sessions, added, executed, llmOutputs, clientInputs, toAdmit>>

NextCtx ==
    \/ AddTurnCall("s1")
    \/ \E sid \in SessionIds : ResolveCall("r1", sid)

(***************************************************************************)
(* Initial states and specifications.                                      *)
(***************************************************************************)
\* The schemas with which compiled rules pass validate_compiled_rules.
(***************************************************************************)
(* core/safe_executor.py: execute_query, command by command, on a          *)
(* connection of db/connection.py's query pool                             *)
(***************************************************************************)
ExecSlots == {"e1", "e2"}

\* The statements handed to execute_query.
ExecStatements == {"SELECT * FROM core.loans l LIMIT 200", "SELECT 1"}

\* timeout_seconds of the call: 0 stands for None.
TimeoutInputs == {0, 5}

Cmd(cmd, arg, ok) == [cmd |-> cmd, arg |-> arg, ok |-> ok]

IdleCall ==
    [pc |-> "idle", sql |-> "", timeout_seconds |-> 0, held |-> FALSE, log |-> <<>>]

\* timeout = timeout_seconds or settings.statement_timeout_seconds;
\* timeout_ms = int(timeout * 1000)
timeout_ms(timeout_seconds) ==
    (IF timeout_seconds # 0 THEN timeout_seconds ELSE statement_timeout_seconds) * 1000

\* The command execute_query sends at each position of its transaction.
command_at(call) ==
    CASE call.pc = "begin" -> Cmd("BEGIN TRANSACTION READ ONLY", "", TRUE)
      [] call.pc = "set_local" ->
            Cmd("SET LOCAL statement_timeout", timeout_ms(call.timeout_seconds), TRUE)
      [] call.pc = "fetch" -> Cmd("statement", call.sql, TRUE)
      [] call.pc = "commit" -> Cmd("COMMIT", "", TRUE)

\* An inner handler that re-raises without the ROLLBACK (faulty variant of
\* after_command).
after_command_no_rollback(pc, ok) ==
    IF ok
    THEN CASE pc = "begin" -> "set_local"
           [] pc = "set_local" -> "fetch"
           [] pc = "fetch" -> "commit"
           [] pc = "commit" -> "returning"
    ELSE "raising"

\* Where execute_query goes on after a command: the next one, or on an exception
\* the inner `except Exception` (ROLLBACK, raise) when the command stood inside
\* the inner try, else straight to the outer handler.
after_command(pc, ok) ==
    IF ok
    THEN CASE pc = "begin" -> "set_local"
           [] pc = "set_local" -> "fetch"
           [] pc = "fetch" -> "commit"
           [] pc = "commit" -> "returning"
    ELSE IF pc = "begin" THEN "raising" ELSE "rollback"

\* execute_query(sql, correlation_id, timeout_seconds) is called.
ExecCall(e) ==
    /\ calls[e].pc = "idle"
    /\ \E sql \in ExecStatements, t \in TimeoutInputs :
          calls' = [calls EXCEPT ![e] = [IdleCall EXCEPT !.pc = "called", !.sql = sql,
                                                          !.timeout_seconds = t]]
    /\ UNCHANGED <<kbVars, mcVars, reqVars, retrVars, introVars, pool>>

\* acquire_query_connection: query_pool.acquire() and the three session SETs; a
\* failure of a SET leaves through the pool's context manager with the
\* connection still to be released.
ExecAcquire(e) ==
    /\ calls[e].pc = "called"
    /\ \/ /\ calls' = [calls EXCEPT ![e] = [@ EXCEPT !.pc = "raising"]]
          /\ UNCHANGED pool
       \/ /\ pool.out < pool.max_size
          /\ pool' = [pool EXCEPT !.out = @ + 1]
          /\ \E ok \in BOOLEAN :
                calls' = [calls EXCEPT ![e] =
                            [@ EXCEPT !.held = TRUE,
                                      !.log = Append(@, Cmd("SET session defaults", "", ok)),
                                      !.pc = IF ok THEN "begin" ELSE "raising"]]
    /\ UNCHANGED <<kbVars, mcVars, reqVars, retrVars, introVars>>

\* BEGIN TRANSACTION READ ONLY, SET LOCAL statement_timeout, the statement, COMMIT:
\* each succeeds or raises.
ExecCommand(e) ==
    /\ calls[e].pc \in {"begin", "set_local", "fetch", "commit"}
    /\ \E ok \in BOOLEAN :
          calls' = [calls EXCEPT ![e] =
                      [@ EXCEPT !.log = Append(@, [command_at(calls[e]) EXCEPT !.ok = ok]),
                                !.pc = after_command(calls[e].pc, ok)]]
    /\ UNCHANGED <<kbVars, mcVars, reqVars, retrVars, introVars, pool>>

\* The inner handler: ROLLBACK, which may itself raise, then raise.
ExecRollback(e) ==
    /\ calls[e].pc = "rollback"
    /\ \E ok \in BOOLEAN :
          calls' = [calls EXCEPT ![e] =
                      [@ EXCEPT !.log = Append(@, Cmd("ROLLBACK", "", ok)), !.pc = "raising"]]
    /\ UNCHANGED <<kbVars, mcVars, reqVars, retrVars, introVars, pool>>

\* The exit of `async with self.query_pool.acquire() as conn`.
release(p, call) == IF call.held THEN [p EXCEPT !.out = @ - 1] ELSE p

\* The call leaves the `async with`: it returns the ExecutionResult, or the outer
\* handler raises the RuntimeError.
ExecLeaves(e) ==
    /\ calls[e].pc \in {"returning", "raising"}
    /\ pool' = release(pool, calls[e])
    /\ calls' = [calls EXCEPT ![e] =
                   [@ EXCEPT !.held = IF pool' # pool THEN FALSE ELSE @,
                             !.pc = IF calls[e].pc = "returning" THEN "returned" ELSE "raised"]]
    /\ UNCHANGED <<kbVars, mcVars, reqVars, retrVars, introVars>>

\* The caller has the result or the exception.
ExecDone(e) ==
    /\ calls[e].pc \in {"returned", "raised"}
    /\ calls' = [calls EXCEPT ![e] = [IdleCall EXCEPT !.held = calls[e].held]]
    /\ UNCHANGED <<kbVars, mcVars, reqVars, retrVars, introVars, pool>>

NextExec ==
    \E e \in ExecSlots :
        \/ ExecCall(e)
        \/ ExecAcquire(e)
        \/ ExecCommand(e)
        \/ ExecRollback(e)
        \/ ExecLeaves(e)
        \/ ExecDone(e)

InitExecutor ==
    /\ calls = [e \in ExecSlots |-> IdleCall]
    /\ pool = [max_size |-> query_pool_max_size, out |-> 0]

InitRetriever == selection = NoSelection

(***************************************************************************)
(* core/schema_introspector.py against a database whose catalog changes    *)
(***************************************************************************)
\* The base tables the database may hold, in the configured schema "core" and
\* outside it, and the foreign-key constraints it may declare between them.
DbTables == {T("core", "loans"), T("core", "branches"), T("core", "payments"), T("ext", "customers")}

DbForeignKeys ==
    { FK(T("core", "loans"), "branch_id", T("core", "branches"), "id"),
      FK(T("core", "loans"), "payment_id", T("core", "payments"), "id"),
      FK(T("core", "loans"), "customer_id", T("ext", "customers"), "id") }

\* The catalogs: a constraint exists only between tables that exist.
Catalogs ==
    {c \in [tables : SUBSET DbTables, foreign_keys : SUBSET DbForeignKeys] :
        \A fk \in c.foreign_keys : fk.from_table \in c.tables /\ fk.to_table \in c.tables}

\* SchemaIntrospector.extract_tables: the base tables of the configured schema.
introspect_tables(db, schema_name) == {t \in db.tables : t.db = schema_name}

\* extract_foreign_keys: the FOREIGN KEY constraints of the tables of the
\* configured schema whose referenced column is in a table of the same schema
\* (tc.table_schema = ccu.table_schema).
extract_foreign_keys(db, schema_name) ==
    {fk \in db.foreign_keys : fk.from_table.db = schema_name /\ fk.to_table.db = fk.from_table.db}

\* build_kb_schema: each extracted table with the extracted foreign keys that
\* start at it.
build_kb_schema(tables, all_fks, schema_name) ==
    [ schema_name |-> schema_name, tables |-> tables,
      foreign_keys |-> {fk \in all_fks : fk.from_table \in tables} ]

IdleIntrospection == [pc |-> "idle", tables |-> {}, kb_schema |-> Schemas.empty, rules |-> compile_rules(Schemas.empty, 0)]

InitIntrospector ==
    /\ catalog = [tables |-> {T("core", "loans"), T("core", "branches")},
                  foreign_keys |-> {FK(T("core", "loans"), "branch_id", T("core", "branches"), "id")}]
    /\ introspection = IdleIntrospection

\* DDL committed by another session of the database.
Ddl ==
    /\ \E c \in Catalogs \ {catalog} : catalog' = c
    /\ UNCHANGED <<introspection, execVars, retrVars, kbVars, mcVars, reqVars>>

\* build_kb_schema: tables = await self.extract_tables()
IntrospectTables ==
    /\ introspection.pc = "idle"
    /\ introspection' = [IdleIntrospection EXCEPT !.pc = "tables",
                                                  !.tables = introspect_tables(catalog, "core")]
    /\ UNCHANGED <<catalog, execVars, retrVars, kbVars, mcVars, reqVars>>

\* build_kb_schema: all_fks = await self.extract_foreign_keys(), and the
\* assembly of the kb_schema dict.
IntrospectForeignKeys ==
    /\ introspection.pc = "tables"
    /\ introspection' = [introspection EXCEPT
            !.pc = "schema",
            !.kb_schema = build_kb_schema(introspection.tables,
                                          extract_foreign_keys(catalog, "core"), "core")]
    /\ UNCHANGED <<catalog, execVars, retrVars, kbVars, mcVars, reqVars>>

\* The rest of the refresh on that kb_schema: compile_rules, then
\* validate_compiled_rules, then the publication or the failure.
CompileIntrospected ==
    /\ introspection.pc = "schema"
    /\ LET compiled == compile_rules(introspection.kb_schema, 1)
       IN  introspection' = [introspection EXCEPT
                !.pc = IF validate_compiled_rules(compiled) THEN "published" ELSE "failed",
                !.rules = compiled]
    /\ UNCHANGED <<catalog, execVars, retrVars, kbVars, mcVars, reqVars>>

\* The next refresh starts over.
NextIntrospection ==
    /\ introspection.pc \in {"published", "failed"}
    /\ introspection' = IdleIntrospection
    /\ UNCHANGED <<catalog, execVars, retrVars, kbVars, mcVars, reqVars>>

NextIntro == Ddl \/ IntrospectTables \/ IntrospectForeignKeys \/ CompileIntrospected \/ NextIntrospection

(***************************************************************************)
(* core/retrieval/kb_retriever.py: select_top_columns                      *)
(***************************************************************************)
\* The columns of a table in the order the KB lists them, with the tokens
\* tokenize_text makes of each name (lower case, split at underscores).
ColumnOrder == <<"id", "branch_id", "officer_id", "amount", "status", "loan_date">>

tokenize_text ==
    [ id |-> {"id"}, branch_id |-> {"branch", "id"}, officer_id |-> {"officer", "id"},
      amount |-> {"amount"}, status |-> {"status"}, loan_date |-> {"loan", "date"} ]

\* The column lists: the sublists of ColumnOrder.
ColumnLists ==
    {SelectSeq(ColumnOrder, LAMBDA c : c \in keep) : keep \in SUBSET Range(ColumnOrder)}

QuestionTokens == {{}, {"status"}, {"loan", "date", "status"}, {"id", "amount"}}

PkColumns == {{}, {"id"}}

FkColumns == SUBSET {"branch_id", "officer_id"}

MaxColumnsInputs == 0..3

\* seq[:k] of Python: the first k elements, and for a negative k all but the last -k.
slice_to(seq, k) ==
    LET n == IF k >= 0 THEN Min(k, Len(seq)) ELSE IF Len(seq) + k > 0 THEN Len(seq) + k ELSE 0
    IN  SubSeq(seq, 1, n)

relevance(col, question_tokens) == Cardinality(question_tokens \cap tokenize_text[col])

\* list.sort(key = relevance, reverse = True): stable, highest relevance first.
RECURSIVE sort_by_relevance(_, _, _)
sort_by_relevance(cols, question_tokens, rel) ==
    LET here == SelectSeq(cols, LAMBDA c : relevance(c, question_tokens) = rel)
    IN  IF rel = 0 THEN here ELSE here \o sort_by_relevance(cols, question_tokens, rel - 1)

select_top_columns(columns, question_tokens, pk_columns, fk_columns, max_columns) ==
    LET pk_fk_cols   == SelectSeq(columns, LAMBDA c : c \in pk_columns \/ c \in fk_columns)
        regular_cols == SelectSeq(columns, LAMBDA c : ~(c \in pk_columns \/ c \in fk_columns))
        scored_regular  == sort_by_relevance(regular_cols, question_tokens, Cardinality(question_tokens))
        remaining_slots == max_columns - Len(pk_fk_cols)
    IN  pk_fk_cols \o slice_to(scored_regular, remaining_slots)

\* A call of select_top_columns with its arguments.
SelectCall ==
    /\ selection.pc = "none"
    /\ \E columns \in ColumnLists, question_tokens \in QuestionTokens,
          pk_columns \in PkColumns, fk_columns \in FkColumns, max_columns \in MaxColumnsInputs :
            selection' = [ pc |-> "called", columns |-> columns, question_tokens |-> question_tokens,
                           pk_columns |-> pk_columns, fk_columns |-> fk_columns,
                           max_columns |-> max_columns ]
    /\ UNCHANGED <<execVars, introVars, kbVars, mcVars, reqVars>>

\* Its return.
SelectReturn ==
    /\ selection.pc = "called"
    /\ selection' = [ pc |-> "returned", columns |-> selection.columns,
                      question_tokens |-> selection.question_tokens,
                      pk_columns |-> selection.pk_columns, fk_columns |-> selection.fk_columns,
                      max_columns |-> selection.max_columns,
                      selected |-> select_top_columns(selection.columns, selection.question_tokens,
                                                      selection.pk_columns, selection.fk_columns,
                                                      selection.max_columns) ]
    /\ UNCHANGED <<execVars, introVars, kbVars, mcVars, reqVars>>

NextRetr == SelectCall \/ SelectReturn

PublishableSchemas == {n \in SchemaNames : validate_compiled_rules(compile_rules(Schemas[n], 1))}

InitCache ==
    /\ mcache = [k \in CacheKeys |-> NoEntry]
    /\ dbMeta = [k \in CacheKeys |-> 1]
    /\ cacheReads = NoRead

\* The process is up: the startup refresh published version 1 from schema `name`.
ServingOn(name) ==
    /\ diskSchema = KbFile(1, name)
    /\ diskSemantic = KbFile(1, name)
    /\ diskRules = KbFile(1, name)
    /\ tempSchema = NoFile
    /\ tempSemantic = NoFile
    /\ tempRules = NoFile
    /\ sched = refresh_succeeded(NewScheduler, 1, 1)
    /\ tasks = [c \in Callers |-> IF c = "startup" THEN [IdleTask EXCEPT !.pc = "finished"]
                                  ELSE IdleTask]
    /\ runs = 1
    /\ app = [state |-> "serving", scheduler_started |-> TRUE]

\* The process starts: no KB files, or the files a previous run of the process
\* published.
Starting ==
    /\ \E prev \in {NoFile, KbFile(1, "nofk")} :
          /\ diskSchema = prev
          /\ diskSemantic = prev
          /\ diskRules = prev
    /\ tempSchema = NoFile
    /\ tempSemantic = NoFile
    /\ tempRules = NoFile
    /\ sched = NewScheduler
    /\ tasks = [c \in Callers |-> IdleTask]
    /\ runs = 1
    /\ app = [state |-> "starting", scheduler_started |-> FALSE]

InitRequests(slots, budget) ==
    /\ reqs = [r \in ReqSlots |-> IF r \in slots THEN IdleReq ELSE OffReq]
    /\ sessions = [sid \in SessionIds |-> <<>>]
    /\ added = [sid \in SessionIds |-> <<>>]
    /\ executed = [r \in ReqSlots |-> <<>>]
    /\ toAdmit = budget

\* The validator: one statement from the provider, under each schema, and the
\* follow-up questions that rewrite it.
InitVal ==
    /\ \E name \in PublishableSchemas : ServingOn(name)
    /\ InitCache
    /\ InitExecutor
    /\ InitRetriever
    /\ InitIntrospector
    /\ InitRequests({"r1"}, MaxReqs)
    /\ \E st \in Statements \cup {BlankSql, NoSql} : llmOutputs = {LlmResponse(st)}
    /\ clientInputs = {Query("s1", QCount), Query("s1", QMake5), Query("s1", QMakeBig),
                       Query("s1", QSort), Clarify("s1", QCount, "loans by branch")}

SpecVal == InitVal /\ [][NextReq]_vars

\* The validator over the joins of the wide catalog, from one table joined to
\* loans up to all seven.
InitStar ==
    /\ ServingOn("star")
    /\ InitCache
    /\ InitExecutor
    /\ InitRetriever
    /\ InitIntrospector
    /\ InitRequests({"r1"}, MaxReqs)
    /\ \E st \in StarFamily \cup {BlankSql} : llmOutputs = {LlmResponse(st)}
    /\ clientInputs = {Query("s1", QCount), Query("s1", QMake5),
                       Clarify("s1", QCount, "loans by branch")}

SpecStar == InitStar /\ [][NextReq]_vars

\* The request pipeline: two requests in flight.
PipelineStatements ==
    { Plain,
      JoinLB("INNER", "eq", <<Pred("l", "id", "b", "id")>>),
      [Plain EXCEPT !.root = "Insert", !.keywords = {"INSERT"}],
      BlankSql }

\* The turn an earlier /query "how many loans are there" left in its session: the
\* validated text of the provider's join statement and the provider's intent.
EarlierTurn ==
    LET response == LlmResponse(JoinLB("INNER", "eq", <<Pred("l", "id", "b", "id")>>))
    IN  Turn(QCount.text, "",
             validate_sql(response.sql, RulesOf(KbFile(1, "fk"))).sql,
             generate_sql_llm(response).intent_summary)

InitReq ==
    /\ ServingOn("fk")
    /\ InitCache
    /\ InitExecutor
    /\ InitRetriever
    /\ InitIntrospector
    /\ reqs = [r \in ReqSlots |-> IdleReq]
    /\ \E stored \in {<<>>, <<EarlierTurn>>} :
          /\ sessions = [sid \in SessionIds |-> IF sid = "s1" THEN stored ELSE <<>>]
          /\ added = sessions
    /\ executed = [r \in ReqSlots |-> <<>>]
    /\ toAdmit = MaxReqs
    /\ llmOutputs = {LlmResponse(st) : st \in PipelineStatements}
    /\ clientInputs = {Query("s1", QCount), Query("s1", QMake5), Query("s2", QVague),
                       Clarify("s2", QVague, "loans by branch"), Clarify("s1", QMake5, ""),
                       Query("s1", QDelete), Clarify("s1", QDelete, "inactive ones"),
                       Query("s1", QMake0), Query("s2", QTop)}

SpecReq == InitReq /\ [][NextReq]_vars

\* kb/compiled_rules.json is gone while the process serves (the condition
\* load_compiled_rules tests with COMPILED_RULES_PATH.exists()).
RulesFileLost ==
    /\ app.state = "serving"
    /\ diskRules # NoFile
    /\ diskRules' = NoFile
    /\ UNCHANGED <<execVars, retrVars, introVars, diskSchema, diskSemantic, tempSchema, tempSemantic, tempRules,
                   sched, tasks, runs, app, mcVars, reqVars>>

\* Requests on both endpoints, with the compiled rules present or lost.
InitNoKB ==
    /\ ServingOn("fk")
    /\ InitCache
    /\ InitExecutor
    /\ InitRetriever
    /\ InitIntrospector
    /\ InitRequests(ReqSlots, MaxReqs)
    /\ llmOutputs = {LlmResponse(Plain)}
    /\ clientInputs = {Query("s1", QCount), Clarify("s1", QCount, "all of them")}

SpecNoKB == InitNoKB /\ [][NextReq \/ RulesFileLost]_vars

\* The KB refresh, from the start of the process or in a process that is up, with
\* requests being served.
InitKB ==
    /\ Starting \/ ServingOn("fk")
    /\ InitCache
    /\ InitExecutor
    /\ InitRetriever
    /\ InitIntrospector
    /\ InitRequests({"r1"}, MaxReqs)
    /\ llmOutputs = {LlmResponse(Plain)}
    /\ clientInputs = {Query("s1", QCount)}

\* The KB refresh with the metadata cache in use.
InitCacheUse ==
    /\ Starting
    /\ InitCache
    /\ InitExecutor
    /\ InitRetriever
    /\ InitIntrospector
    /\ InitRequests({}, 0)
    /\ llmOutputs = {}
    /\ clientInputs = {}

SpecCache == InitCacheUse /\ [][NextKB \/ NextCache]_vars

\* The context resolver alone: a question to resolve, and no turn stored yet.
InitCtx ==
    /\ ServingOn("fk")
    /\ InitCache
    /\ InitExecutor
    /\ InitRetriever
    /\ InitIntrospector
    /\ \E q \in QuestionInputs :
          reqs = [r \in ReqSlots |-> IF r = "r1" THEN [IdleReq EXCEPT !.pc = "asked", !.question = q]
                                     ELSE OffReq]
    /\ sessions = [sid \in SessionIds |-> <<>>]
    /\ added = [sid \in SessionIds |-> <<>>]
    /\ executed = [r \in ReqSlots |-> <<>>]
    /\ toAdmit = 0
    /\ llmOutputs = {}
    /\ clientInputs = {}

SpecCtx == InitCtx /\ [][NextCtx]_vars

\* The executor alone: two execute_query calls side by side.
InitExec ==
    /\ ServingOn("fk")
    /\ InitCache
    /\ InitExecutor
    /\ InitRetriever
    /\ InitIntrospector
    /\ InitRequests({}, 0)
    /\ llmOutputs = {}
    /\ clientInputs = {}

SpecExec == InitExec /\ [][NextExec]_vars

\* Introspection and compilation alone, on a database under DDL.
SpecIntro == InitExec /\ [][NextIntro]_vars

\* The KB retriever's column selection alone.
SpecRetr == InitExec /\ [][NextRetr]_vars

Init == InitKB

Next == NextKB \/ NextReq

Spec == Init /\ [][Next]_vars

(***************************************************************************)
(* Properties.                                                             *)
(***************************************************************************)
\* The requests whose handler has called execute_query.
Executing == {r \in ReqSlots : executed[r] # <<>>}

\* The statement a request handed to the executor, and the rules it validated with.
ExecutedSql(r) == executed[r][1].sql
SnapshotOf(r) == RulesOf(reqs[r].rules)

\* C1: execute_query is only invoked, once, with the SQL that validate_sql returned
\* with is_valid = true for the SQL generated in the same request, on the LLM path
\* and on the deterministic path; a request whose generated SQL is empty or
\* invalid executes nothing.
C1_ExecutesOnlyValidatedSql ==
    \A r \in ReqSlots :
        LET req == reqs[r]
            validated == validate_sql(req.gen.sql, RulesOf(req.rules))
        IN  /\ Len(executed[r]) <= 1
            /\ r \in Executing =>
                  /\ req.gen.path \in {"llm", "deterministic"}
                  /\ req.gen.sql.kind = "sql"
                  /\ validated.is_valid
                  /\ ExecutedSql(r) = validated.sql
            /\ (req.resp.kind \in {"empty_sql", "rejected", "refusal", "clarification"})
                  => r \notin Executing

\* C1 witness: a deterministic rewrite is being executed on /query while the
\* request on the LLM path that it refines has executed and answered with rows.
C1_Witness ==
    \E r, o \in ReqSlots :
        /\ r # o
        /\ reqs[r].pc = "exec" /\ reqs[r].gen.path = "deterministic" /\ r \in Executing
        /\ ExecutedSql(r) = reqs[r].val.sql
        /\ reqs[o].pc = "done" /\ reqs[o].gen.path = "llm" /\ reqs[o].resp.kind = "rows"

\* C2: every validated and executed statement has no forbidden node anywhere in its
\* tree, a SELECT-like root, and exactly one top-level statement.
C2_ExecutedIsSingleSelect ==
    \A r \in Executing :
        /\ TreeNodes(ExecutedSql(r)) \cap ForbiddenNodes = {}
        /\ ExecutedSql(r).root \in AllowedRoots
        /\ ExecutedSql(r).nstmts = 1

\* C2 witness: a UNION statement that the validator left as generated is executed.
C2_Witness ==
    \E r \in Executing :
        /\ ExecutedSql(r).root = "Union"
        /\ reqs[r].gen.path = "llm"
        /\ reqs[r].pc = "done" /\ reqs[r].resp.kind = "rows"

\* C3: every response that carries rows has row_count = len(rows) and at most
\* max_limit rows, whatever the placement of LIMIT in the accepted statement and
\* whatever the database holds.
C3_RowsWithinMaxLimit ==
    \A r \in ReqSlots :
        (reqs[r].pc = "done" /\ reqs[r].resp.kind = "rows") =>
            /\ reqs[r].resp.row_count = reqs[r].resp.rows
            /\ reqs[r].resp.rows <= max_limit

\* The table an alias names in the query level of a JOIN (the level's own tables
\* first, then the enclosing levels'), and whether that reference is to a CTE: an
\* unqualified name of the WITH clause.
TablesNamed(s, lvl, a) ==
    {i \in DOMAIN s.tables : AliasKey(s.tables[i]) = a /\ s.tables[i].lvl <= lvl}

ScopedTable(s, lvl, a) ==
    LET hits == TablesNamed(s, lvl, a)
        best == CHOOSE i \in hits : \A j \in hits : s.tables[j].lvl <= s.tables[i].lvl
    IN  s.tables[best]

RefersToCte(s, t) == t.db = "" /\ t.name \in s.ctes

FkJoined(rules, ta, x, tb, y) ==
    LET A == qualify_table(TableStr(ta), rules.schema_name)
        B == qualify_table(TableStr(tb), rules.schema_name)
    IN  \/ FK(A, x, B, y) \in rules.fk_edges
        \/ FK(B, y, A, x) \in rules.fk_edges

JoinFollowsFk(s, rules, j) ==
    /\ j.shape \notin {"none", "other"}
    /\ \E p \in Range(j.preds) : PredQualified(p)
    /\ j.shape = "eq" =>
          LET p == j.preds[1] IN
          /\ TablesNamed(s, j.lvl, p.lt) # {}
          /\ TablesNamed(s, j.lvl, p.rt) # {}
          /\ LET ta == ScopedTable(s, j.lvl, p.lt)
                 tb == ScopedTable(s, j.lvl, p.rt)
             IN  RefersToCte(s, ta) \/ RefersToCte(s, tb) \/ FkJoined(rules, ta, p.lc, tb, p.rc)

\* C4: in every accepted statement, every JOIN has an ON with qualified columns
\* that can be analysed, and every JOIN ... ON a.x = b.y follows an FK edge of the
\* snapshot between the tables a and b name, in either direction, unless one of
\* them is a CTE.
C4_JoinsFollowFkEdges ==
    \A r \in Executing :
        \A j \in Range(ExecutedSql(r).joins) : JoinFollowsFk(ExecutedSql(r), SnapshotOf(r), j)

\* The physical tables a statement references, schema-qualified.
PhysicalRefs(s, rules) ==
    {qualify_table(TableStr(t), rules.schema_name) :
        t \in {u \in Range(s.tables) : ~RefersToCte(s, u)}}

FkConnected(rules, a, b) ==
    b \in ReachWithin(rules.join_graph.edges, {a}, Cardinality(rules.join_graph.nodes))

\* C5: in every accepted statement that references two or more physical tables,
\* every two of them are connected by an undirected FK path of the join graph of
\* the snapshot the request used, also when the schema declares no foreign key.
C5_PhysicalTablesConnected ==
    \A r \in Executing :
        \A a, b \in PhysicalRefs(ExecutedSql(r), SnapshotOf(r)) :
            FkConnected(SnapshotOf(r), a, b)

\* C6: each request works with the one snapshot of the compiled rules it read at
\* entry, for retrieval, for validation and for provenance.kb_version, whatever a
\* refresh does meanwhile; the snapshot it reads is the file the latest successful
\* refresh published, never older than the version published when it arrived.
C6_OneSnapshotPerRequest ==
    /\ [](\A r \in ReqSlots :
            LET req == reqs[r] IN
            /\ req.retrieval_version \in {0, req.rules.version}
            /\ req.validation_version \in {0, req.rules.version}
            /\ (req.pc = "done" /\ req.resp.kind = "rows") =>
                    req.resp.kb_version = req.rules.version
            /\ req.rules # NoFile => req.rules.version >= req.entry_version)
    /\ [][\A r \in ReqSlots :
            /\ (reqs[r].pc = "start" /\ reqs'[r].pc = "loaded") =>
                  /\ reqs'[r].rules = diskRules
                  /\ reqs'[r].rules.version = sched.current_version
                  /\ sched.last_refresh_time # 0 =>
                        reqs'[r].rules.version = sched.last_refresh_time
            /\ (reqs[r].pc \in {"loaded", "llm", "exec"} /\ reqs'[r].pc # "idle") =>
                  reqs'[r].rules = reqs[r].rules]_vars

\* C6 witness: a request answered with rows under the version it read at entry
\* after a refresh has published a newer version while it was being handled.
C6_Witness ==
    \E r \in ReqSlots :
        /\ reqs[r].pc = "done" /\ reqs[r].resp.kind = "rows"
        /\ reqs[r].resp.kb_version = reqs[r].rules.version
        /\ reqs[r].validation_version = reqs[r].rules.version
        /\ diskRules.version > reqs[r].rules.version
        /\ sched.last_refresh_status = "success"

\* The callers whose refresh pipeline is in progress.
InPipeline == {c \in Callers : tasks[c].pc \in PipelineStages}

\* C7: at most one refresh pipeline is in progress at any time, and a call made
\* while is_refreshing is true returns 'skipped', writes no temp or production
\* file and leaves last_refresh_status, last_refresh_error and current_version.
C7_RefreshIsSerialized ==
    /\ [](Cardinality(InPipeline) <= 1 /\ (sched.is_refreshing <=> InPipeline # {}))
    /\ [][\A c \in Callers :
            (tasks[c].pc = "idle" /\ tasks'[c].pc # "idle" /\ sched.is_refreshing) =>
                /\ tasks'[c].pc = "returned"
                /\ tasks'[c].result.status = "skipped"
                /\ Files' = Files
                /\ sched'.last_refresh_status = sched.last_refresh_status
                /\ sched'.last_refresh_error = sched.last_refresh_error
                /\ sched'.current_version = sched.current_version
                /\ sched'.is_refreshing]_vars

\* C7 witness: a call returned 'skipped' while another caller's pipeline is in
\* progress.
C7_Witness ==
    \E c, d \in Callers :
        /\ c # d
        /\ tasks[c].pc \in PipelineStages
        /\ tasks[d].pc = "returned" /\ tasks[d].result.status = "skipped"
        /\ sched.is_refreshing

PreSwapStages == {"introspect", "merge", "compile"}

\* C8: a refresh that fails before the swap returns 'failed' with the error
\* recorded, leaves the production files and current_version as they were, and
\* the requests that read the rules afterwards get the published file.
C8_FailureKeepsLastKnownGood ==
    /\ [][\A c \in Callers :
            (tasks[c].pc \in PreSwapStages /\ tasks'[c].pc = "returned") =>
                /\ tasks'[c].result.status = "failed"
                /\ tasks'[c].result.error # ""
                /\ diskRules' = diskRules
                /\ diskSchema' = diskSchema
                /\ diskSemantic' = diskSemantic
                /\ sched'.current_version = sched.current_version
                /\ sched'.last_refresh_status = "failed"
                /\ sched'.last_refresh_error = tasks'[c].result.error
                /\ ~sched'.is_refreshing]_vars
    /\ [][\A r \in ReqSlots :
            (reqs[r].pc = "start" /\ reqs'[r].pc = "loaded"
                /\ sched.last_refresh_status = "failed") =>
                /\ reqs'[r].rules = diskRules
                /\ reqs'[r].rules # NoFile
                /\ reqs'[r].rules.version = sched.current_version]_vars

\* C8 witness: the interval refresh failed before its swap, and a request that
\* read the rules after the failure is answered with rows under the version
\* published before.
C8_Witness ==
    \E r \in ReqSlots :
        /\ tasks["tick"].pc = "returned"
        /\ tasks["tick"].result.status = "failed"
        /\ tasks["tick"].result.error \in PreSwapStages \cup {"validation"}
        /\ sched.last_refresh_status = "failed"
        /\ reqs[r].pc = "done" /\ reqs[r].resp.kind = "rows"
        /\ reqs[r].resp.kb_version = sched.current_version
        /\ reqs[r].rules = diskRules

C10_NoValueSurvivesRefresh ==
    ~(cacheReads.from_cache /\ cacheReads.cached_at < cacheReads.read_at)

\* The most recent k elements of a sequence, in its order.
MostRecent(seq, k) == SubSeq(seq, Len(seq) - Min(Len(seq), k) + 1, Len(seq))

\* C11: after any sequence of add_turn calls every session holds at most 5 turns:
\* the most recent min(n, 5) of the n turns added to it, in insertion order.
C11_SessionKeepsLastFiveTurns ==
    \A sid \in SessionIds :
        /\ Len(sessions[sid]) <= 5
        /\ Len(sessions[sid]) = Min(Len(added[sid]), 5)
        /\ sessions[sid] = MostRecent(added[sid], 5)

\* C11 witness: six turns were added to a session, the oldest is gone and the
\* second one added, which differs from the first, is now the oldest stored.
C11_Witness ==
    /\ Len(added["s1"]) = 6
    /\ Len(sessions["s1"]) = 5
    /\ sessions["s1"][1] = added["s1"][2]
    /\ added["s1"][1] # added["s1"][2]
    /\ sessions["s1"][5] = added["s1"][6]

\* The class the fixed order gives to a question with an anchor turn: the first of
\* the five refinement instructions, then drilldown, then referential, else NEW.
FirstClass(m) ==
    IF "limit_change" \in m THEN <<"REFINE", "limit_change">>
    ELSE IF "metric_change" \in m THEN <<"REFINE", "metric_change">>
    ELSE IF "order_change" \in m THEN <<"REFINE", "order_change">>
    ELSE IF "filter_change" \in m THEN <<"REFINE", "filter_change">>
    ELSE IF "time_window_change" \in m THEN <<"REFINE", "time_window_change">>
    ELSE IF "drilldown" \in m THEN <<"DRILLDOWN", "">>
    ELSE IF "referential" \in m THEN <<"REFINE", "">>
    ELSE <<"NEW", "">>

HasSqlTurn(turns) == \E i \in DOMAIN turns : turns[i].sql.kind = "sql"

\* C13: when the session has an anchor turn, resolve_context gives the question
\* the class of the first match in the order limit_change, metric_change,
\* order_change, filter_change, time_window_change, drilldown, referential, and
\* NEW when nothing matches, whatever else the question matches.
C13_FirstMatchClassifies ==
    [][\A r \in ReqSlots :
        (reqs[r].pc = "asked" /\ reqs'[r].pc = "resolved"
            /\ HasSqlTurn(sessions[reqs'[r].session_id])) =>
            LET ctx == reqs'[r].ctx
                class == FirstClass(reqs[r].question.matches)
            IN  /\ ctx.continuation_type = class[1]
                /\ ctx.refinement_instruction = class[2]
                /\ ctx.is_related = (class[1] # "NEW")]_vars

\* C13 witness: a question that matches the metric, ORDER BY, filter, drilldown
\* and referential patterns was resolved against a session with an anchor turn
\* as REFINE with instruction metric_change.
C13_Witness ==
    \E r \in ReqSlots :
        /\ reqs[r].pc = "resolved"
        /\ {"metric_change", "order_change", "filter_change", "drilldown", "referential"}
               \subseteq reqs[r].question.matches
        /\ reqs[r].ctx.continuation_type = "REFINE"
        /\ reqs[r].ctx.refinement_instruction = "metric_change"
        /\ reqs[r].ctx.anchor_turn # NoTurn

\* The turn a request stores when its execution returns.
TurnOf(req) ==
    Turn(req.question.text, IF req.endpoint = "clarify" THEN req.answer ELSE "",
         req.val.sql, req.gen.intent_summary)

\* A request's execution completes: its turn is stored last in its session.
StoresOnCompletion ==
    \A r \in ReqSlots :
        (reqs[r].pc = "exec" /\ reqs'[r].pc = "done" /\ reqs'[r].resp.kind = "rows") =>
            LET sid == reqs[r].session_id
            IN  /\ sessions'[sid] = MostRecent(Append(sessions[sid], TurnOf(reqs[r])), 5)
                /\ \A o \in SessionIds \ {sid} : sessions'[o] = sessions[o]

\* Sessions change at no other moment.
StoresOnlyOnCompletion ==
    sessions' # sessions =>
        \E r \in ReqSlots : reqs[r].pc = "exec" /\ reqs'[r].resp.kind = "rows"

\* A request resolves its context against the session as it is stored then.
AnchorsOnMostRecentSql ==
    \A r \in ReqSlots :
        (reqs[r].pc \in {"loaded", "asked"} /\ reqs'[r].pc # reqs[r].pc) =>
            LET turns == sessions[reqs'[r].session_id]
                ctx == reqs'[r].ctx
            IN  /\ ~HasSqlTurn(turns) =>
                      /\ ctx.continuation_type = "NEW"
                      /\ ~ctx.is_related
                      /\ ctx.anchor_turn = NoTurn
                /\ ctx.is_related =>
                      \E i \in DOMAIN turns :
                          /\ ctx.anchor_turn = turns[i]
                          /\ turns[i].sql.kind = "sql"
                          /\ \A j \in DOMAIN turns : j > i => turns[j].sql.kind # "sql"

\* C12: for any interleaving of requests on a session, the turn of a request is
\* stored last at the moment its execution completes and sessions change at no
\* other moment, so turns lie in completion order; the anchor a request resolves
\* is the most recent stored turn with SQL, and a session without such a turn
\* gives NEW with is_related false and no anchor.
C12_TurnsInCompletionOrder ==
    [][StoresOnCompletion /\ StoresOnlyOnCompletion /\ AnchorsOnMostRecentSql]_vars

\* C12 witness: a request on s1 resolved its follow-up against the turn a request
\* completed after the earlier one had been stored: the session holds two turns
\* and the anchor is the second, which differs from the first.
C12_Witness ==
    \E r \in ReqSlots :
        /\ reqs[r].pc \in {"exec", "done"}
        /\ reqs[r].session_id = "s1"
        /\ reqs[r].ctx.is_related
        /\ Len(sessions["s1"]) >= 2
        /\ sessions["s1"][1] = EarlierTurn
        /\ reqs[r].ctx.anchor_turn = sessions["s1"][2]
        /\ reqs[r].ctx.anchor_turn # EarlierTurn

\* C14: a request, on /query or /clarify, whose question holds a modification
\* keyword ends in a success envelope with refusal_message set and no SQL, with
\* no retrieval, provider call, validation or execution.
C14_WriteIntentIsRefused ==
    \A r \in ReqSlots :
        (reqs[r].question.mod /\ reqs[r].pc \notin {"idle", "off", "start", "loaded"}) =>
            /\ reqs[r].pc = "done"
            /\ reqs[r].resp.status = 200
            /\ reqs[r].resp.kind = "refusal"
            /\ reqs[r].resp.sql = NoSql
            /\ reqs[r].retrieval_version = 0
            /\ reqs[r].validation_version = 0
            /\ executed[r] = <<>>

\* C15: when the resolved context is related, its anchor turn has SQL, the
\* instruction is limit_change and a number N is parsed from the question,
\* generate_sql returns without the retriever or the provider, with confidence
\* 0.99, the anchor SQL with its LIMIT value replaced by N and the anchor's intent
\* summary with limit = N.
C15_LimitChangeIsDeterministic ==
    [][\A r \in ReqSlots :
        LET ctx == reqs'[r].ctx
            q == reqs[r].question
            N == q.limit_value
        IN  (/\ reqs[r].pc = "loaded" /\ reqs'[r].pc # "loaded"
             /\ ~q.mod
             /\ ctx.is_related /\ ctx.anchor_turn.sql.kind = "sql"
             /\ ctx.refinement_instruction = "limit_change"
             /\ q.limit_given) =>
                /\ reqs'[r].pc # "llm"
                /\ reqs'[r].retrieval_version = 0
                /\ reqs'[r].gen.confidence = 99
                /\ reqs'[r].gen.sql.limits # <<>>
                /\ \A i \in DOMAIN reqs'[r].gen.sql.limits : reqs'[r].gen.sql.limits[i].n = N
                /\ [reqs'[r].gen.sql EXCEPT !.limits = ctx.anchor_turn.sql.limits]
                       = ctx.anchor_turn.sql
                /\ reqs'[r].gen.intent_summary = [ctx.anchor_turn.intent_summary EXCEPT !.limit = N]
      ]_vars

\* The clauses of `after` that are not the clauses of `before` at the same place.
ClausesTouched(before, after) ==
    {i \in DOMAIN after : i \notin DOMAIN before \/ after[i] # before[i]}

\* C16: a deterministic rewrite returns the anchor SQL changed in the targeted
\* clause only: a limit_change alters or appends exactly one LIMIT, an
\* order_change alters or inserts exactly one ORDER BY, and everything else is
\* the anchor's.
C16_RewriteTouchesOneClause ==
    [][\A r \in ReqSlots :
        LET anchor == reqs'[r].ctx.anchor_turn.sql
            new_sql == reqs'[r].gen.sql
            kind == reqs'[r].ctx.refinement_instruction
        IN  (reqs[r].pc = "loaded" /\ reqs'[r].gen.path = "deterministic") =>
                /\ kind = "limit_change" =>
                      /\ Len(new_sql.limits) >= Len(anchor.limits)
                      /\ Cardinality(ClausesTouched(anchor.limits, new_sql.limits)) <= 1
                      /\ [new_sql EXCEPT !.limits = anchor.limits] = anchor
                /\ kind = "order_change" =>
                      /\ Len(new_sql.orders) >= Len(anchor.orders)
                      /\ Cardinality(ClausesTouched(anchor.orders, new_sql.orders)) <= 1
                      /\ [new_sql EXCEPT !.orders = anchor.orders] = anchor
      ]_vars

\* A session changes only at the return of the execution of a request's
\* validated SQL, by that request's turn being stored.
TurnOnlyAfterExecution ==
    sessions' # sessions =>
        \E r \in ReqSlots :
            /\ reqs[r].pc = "exec"
            /\ reqs[r].val.is_valid
            /\ executed[r] = <<[sql |-> reqs[r].val.sql]>>
            /\ reqs'[r].pc = "done" /\ reqs'[r].resp.kind = "rows"
            /\ sessions' = [sessions EXCEPT ![reqs[r].session_id] =
                               MostRecent(Append(@, TurnOf(reqs[r])), 5)]

\* A request that ends otherwise ends with the sessions as they were, and one
\* that ends before the executor call has executed nothing.
NoTurnOtherwise ==
    \A r \in ReqSlots :
        (reqs[r].pc # "done" /\ reqs'[r].pc = "done"
            /\ reqs'[r].resp.kind \in {"refusal", "clarification", "empty_sql", "rejected", "error"}) =>
                /\ sessions' = sessions
                /\ reqs'[r].resp.kind \in {"refusal", "clarification", "empty_sql", "rejected"} =>
                       executed[r] = <<>> /\ executed'[r] = <<>>

\* C17: a turn is appended only by a request that validated its SQL and executed
\* it, after the execution; a request that ends in refusal, clarification, empty
\* SQL, rejection or an execution error leaves every session unchanged, and a
\* clarification response executes nothing.
C17_TurnOnlyAfterSuccessfulExecution ==
    [][TurnOnlyAfterExecution /\ NoTurnOtherwise]_vars

\* C17 witness: on session s1 one request failed in the executor and another
\* returned rows; the session holds the turn of the second and nothing else.
C17_Witness ==
    \E r, o \in ReqSlots :
        /\ reqs[r].pc = "done" /\ reqs[r].session_id = "s1"
        /\ reqs[r].resp.kind = "error" /\ executed[r] # <<>>
        /\ reqs[o].pc = "done" /\ reqs[o].session_id = "s1"
        /\ reqs[o].resp.kind = "rows"
        /\ sessions["s1"] = <<TurnOf(reqs[o])>>

\* C18: the NEW first-turn question "Show top 2 branches by total lending", with
\* no clarification answer and a KB holding a branches table, is neither refused
\* nor answered with a clarification request: it goes on to the retrieval and
\* the provider call, from where validation, execution and the turn follow.
C18_TopBranchesIsAnswered ==
    \A r \in ReqSlots :
        (/\ reqs[r].question = QTop /\ reqs[r].endpoint = "query"
         /\ reqs[r].pc \notin {"idle", "off", "start", "loaded"}
         /\ reqs[r].ctx.continuation_type = "NEW"
         /\ \E t \in RulesOf(reqs[r].rules).tables : t.name = "branches") =>
            /\ reqs[r].gen.clarification = ""
            /\ reqs[r].resp.kind \notin {"refusal", "clarification"}
            /\ reqs[r].retrieval_version # 0

\* C19: when the compiled rules cannot be loaded, /query and /clarify both answer
\* HTTP 503 and nothing is generated, validated or executed for the request.
C19_NoRulesAnswers503 ==
    \A r \in ReqSlots :
        (reqs[r].pc = "done" /\ reqs[r].rules = NoFile) =>
            /\ reqs[r].resp.status = 503
            /\ reqs[r].gen = NoGen
            /\ reqs[r].val = NoVal
            /\ executed[r] = <<>>

FixedMessages ==
    { "Query execution time limit exceeded. Try adding more filters to reduce result size.",
      "Database connection error. Please try again.",
      "SQL syntax error. Please rephrase your question.",
      "An error occurred while executing the query. Please try rephrasing your question." }

\* The message the priority timeout, connection, syntax, generic selects.
MessageByPriority(has) ==
    CASE "timeout" \in has ->
            "Query execution time limit exceeded. Try adding more filters to reduce result size."
      [] "timeout" \notin has /\ "connection" \in has ->
            "Database connection error. Please try again."
      [] {"timeout", "connection"} \cap has = {} /\ "syntax" \in has ->
            "SQL syntax error. Please rephrase your question."
      [] OTHER ->
            "An error occurred while executing the query. Please try rephrasing your question."

\* C20: every failure inside execute_query reaches the caller as one of the four
\* fixed messages, chosen from the error text in the priority timeout,
\* connection, syntax, generic, and the text of the database error is not in
\* the HTTP response.
C20_ExecutionErrorsAreSanitized ==
    \A r \in ReqSlots :
        (reqs[r].pc = "done" /\ reqs[r].db_error # NoDbError) =>
            /\ reqs[r].resp.status = 500
            /\ reqs[r].resp.kind = "error"
            /\ reqs[r].resp.detail.prefix = "Query execution failed: "
            /\ reqs[r].resp.detail.message \in FixedMessages
            /\ reqs[r].resp.detail.message = MessageByPriority(reqs[r].db_error.has)
            /\ reqs[r].resp.detail.message # reqs[r].db_error.text
            /\ reqs[r].resp.sql = NoSql /\ reqs[r].resp.rows = 0

\* C20 witness: a request failed in the executor with an error whose text holds
\* both "connection" and "timeout", and the caller got the time-limit message.
C20_Witness ==
    \E r \in ReqSlots :
        /\ reqs[r].pc = "done"
        /\ reqs[r].db_error.has = {"timeout", "connection"}
        /\ reqs[r].resp.detail.message
              = "Query execution time limit exceeded. Try adding more filters to reduce result size."

\* C21: when validate_sql finds errors they are all aggregated with is_valid
\* false, and the response to the caller has an empty safety_explanation; a
\* non-empty safety_explanation is returned only for a statement that passed
\* validation.
C21_ExplanationOnlyWhenValid ==
    \A r \in ReqSlots :
        reqs[r].pc = "done" =>
            /\ reqs[r].resp.kind = "rejected" =>
                  /\ ~reqs[r].val.is_valid
                  /\ reqs[r].val.errors # {}
                  /\ reqs[r].val.safety_explanation = {}
                  /\ reqs[r].resp.safety_explanation = {}
            /\ reqs[r].resp.safety_explanation # {} =>
                  /\ reqs[r].val.is_valid
                  /\ reqs[r].resp.safety_explanation = reqs[r].val.safety_explanation

Sent(call, cmd) == {i \in DOMAIN call.log : call.log[i].cmd = cmd}

SentOk(call, cmd) == {i \in Sent(call, cmd) : call.log[i].ok}

\* The statement goes out only on a held connection, after a successful BEGIN
\* TRANSACTION READ ONLY and a successful SET LOCAL of the call's timeout in ms.
StatementInsideTransaction(call) ==
    \A k \in Sent(call, "statement") :
        /\ call.log[k].arg = call.sql
        /\ \E i \in SentOk(call, "BEGIN TRANSACTION READ ONLY") :
           \E j \in SentOk(call, "SET LOCAL statement_timeout") :
              /\ i < j /\ j < k
              /\ call.log[j].arg =
                    (IF call.timeout_seconds # 0 THEN call.timeout_seconds
                     ELSE statement_timeout_seconds) * 1000

\* A call that returned sent one COMMIT, after its statement, and no ROLLBACK; a
\* call that raised after a successful BEGIN sent a ROLLBACK as its last command;
\* a call that failed before or in BEGIN sent none.
TransactionEnded(call) ==
    /\ Cardinality(Sent(call, "COMMIT")) <= 1
    /\ Cardinality(Sent(call, "ROLLBACK")) <= 1
    /\ call.pc = "returned" =>
          /\ Cardinality(SentOk(call, "COMMIT")) = 1
          /\ Sent(call, "ROLLBACK") = {}
          /\ \E k \in SentOk(call, "statement") : \A c \in Sent(call, "COMMIT") : k < c
    /\ call.pc = "raised" =>
          /\ SentOk(call, "COMMIT") = {}
          /\ IF SentOk(call, "BEGIN TRANSACTION READ ONLY") # {}
             THEN Sent(call, "ROLLBACK") = {Len(call.log)}
             ELSE Sent(call, "ROLLBACK") = {}

\* C22: on every execute_query call the statement is sent only after BEGIN
\* TRANSACTION READ ONLY and SET LOCAL statement_timeout (seconds x 1000 ms) have
\* succeeded on a connection of the query pool; the transaction is ended by one
\* COMMIT on success or by a ROLLBACK on any error after BEGIN; and the
\* connection is back in the pool whenever the call has ended.
C22_StatementRunsInReadOnlyTransaction ==
    /\ \A e \in ExecSlots :
          /\ Sent(calls[e], "statement") # {} => calls[e].held \/ calls[e].pc \in {"returned", "raised"}
          /\ StatementInsideTransaction(calls[e])
          /\ TransactionEnded(calls[e])
          /\ calls[e].pc \in {"idle", "called", "returned", "raised"} => ~calls[e].held
    /\ pool.out = Cardinality({e \in ExecSlots : calls[e].held})

\* C22 witness: one call returned after BEGIN, SET LOCAL 5000 ms, its statement
\* and COMMIT, the other raised after its COMMIT failed and was rolled back, and
\* both connections are back in the pool.
C22_Witness ==
    /\ calls["e1"].pc = "returned"
    /\ calls["e1"].timeout_seconds = 5
    /\ Len(calls["e1"].log) = 5
    /\ calls["e2"].pc = "raised"
    /\ Sent(calls["e2"], "COMMIT") # {}
    /\ Sent(calls["e2"], "ROLLBACK") # {}
    /\ pool.out = 0

\* A call of refresh_knowledge_base by caller c ends in this step.
RefreshEnds(c, status) ==
    /\ tasks[c].pc \notin {"idle", "returned", "finished"}
    /\ tasks'[c].pc = "returned"
    /\ tasks'[c].result.status = status

\* C23: the reported status follows the state machine: a refresh that starts
\* reports refreshing; a successful one ends in ready ('success'); a failed one
\* with a published artifact, at startup or on a background tick, ends in
\* degraded_last_known_good ('using_last_known_good'); a failed first startup
\* with no artifact ends in failed_no_fallback and aborts.
C23_StatusFollowsStateMachine ==
    [][/\ \A c \in Callers :
            /\ (tasks[c].pc = "idle" /\ tasks'[c].pc \notin {"idle", "returned"}) =>
                   sched'.is_refreshing
            /\ RefreshEnds(c, "success") =>
                   sched'.last_refresh_status = "success" /\ ~sched'.is_refreshing
            /\ (c # "startup" /\ RefreshEnds(c, "failed") /\ diskRules' # NoFile) =>
                   sched'.last_refresh_status = "using_last_known_good" /\ ~sched'.is_refreshing
       /\ (tasks["startup"].pc = "returned" /\ tasks'["startup"].pc = "finished"
              /\ tasks["startup"].result.status = "failed") =>
                 IF diskRules # NoFile
                 THEN sched'.last_refresh_status = "using_last_known_good" /\ app'.state = "serving"
                 ELSE sched'.last_refresh_status = "failed" /\ app'.state = "aborted"
      ]_vars

\* The requests whose statement the validator has gone through, with a statement
\* of the given physical join depth.
ValidatedAtDepth(n) ==
    {r \in ReqSlots : /\ reqs[r].validation_version # 0
                      /\ reqs[r].gen.sql.kind = "sql"
                      /\ get_join_depth(reqs[r].gen.sql) = n}

\* C24: a statement whose physical join depth (unique non-CTE tables minus 1) is
\* exactly the soft max_join_depth gets a join-depth warning from validation and
\* is still accepted, with or without a WHERE clause.
C24_DepthAtSoftMaxWarns ==
    \A r \in ValidatedAtDepth(max_join_depth) :
        /\ reqs[r].val.is_valid
        /\ "join_depth_soft_max" \in reqs[r].val.warnings

\* The key columns of a select_top_columns call: the columns of the list that
\* are primary-key or foreign-key columns.
KeyColumns(sel) == {c \in Range(sel.columns) : c \in sel.pk_columns \/ c \in sel.fk_columns}

\* C25: select_top_columns returns every PK and FK column of the table; the
\* number of returned columns is at most max(max_columns, number of PK/FK
\* columns); and when the PK/FK columns fill or exceed max_columns no non-key
\* column is added.
C25_SelectionWithinMaxColumns ==
    selection.pc = "returned" =>
        LET keys == KeyColumns(selection)
            k    == Cardinality(keys)
        IN  /\ keys \subseteq Range(selection.selected)
            /\ Len(selection.selected) <= (IF selection.max_columns >= k THEN selection.max_columns ELSE k)
            /\ k >= selection.max_columns => Range(selection.selected) = keys

\* C26: every Compiled Rules artifact that passes validate_compiled_rules and is
\* published has every from_table and to_table of every FK edge, and every
\* endpoint of every join_paths key, among the keys of its tables map, whatever
\* the introspected database holds (also a foreign key to a table outside the
\* configured schema).
C26_PublishedRulesAreClosed ==
    introspection.pc = "published" =>
        LET rules == introspection.rules IN
        /\ \A e \in rules.fk_edges : e.from_table \in rules.tables /\ e.to_table \in rules.tables
        /\ \A k \in rules.join_paths : k[1] \in rules.tables /\ k[2] \in rules.tables

\* C27: the flat FK edge list of the Compiled Rules holds both directions of each
\* foreign key: with every edge (A, x, B, y) also the edge (B, y, A, x).
C27_FkEdgesBothDirections ==
    introspection.pc = "published" =>
        \A e \in introspection.rules.fk_edges :
            FK(e.to_table, e.to_column, e.from_table, e.from_column) \in introspection.rules.fk_edges

\* The callers whose refresh attempt is under way: it set the flag and has not
\* returned yet.
Refreshing == {c \in Callers : tasks[c].pc \notin {"idle", "returned", "finished"}}

\* An attempt that set the flag ends, by success or by an exception in a step.
AttemptEndsClearsFlag ==
    \A c \in Callers :
        (RefreshEnds(c, "success") \/ RefreshEnds(c, "failed")) => ~sched'.is_refreshing

\* A call is skipped only while an attempt is under way, and leaves the flag set.
SkipLeavesFlag ==
    \A c \in Callers :
        (tasks[c].pc = "idle" /\ tasks'[c].pc = "returned" /\ tasks'[c].result.status = "skipped") =>
            /\ Refreshing # {}
            /\ sched'.is_refreshing
            /\ UNCHANGED sched

\* C28: whenever a refresh attempt that set is_refreshing finishes, by success or
\* by an exception in any step, is_refreshing is false again, so a later tick is
\* never skipped because of a refresh that has ended; and a call that returns
\* 'skipped' never clears the flag of the refresh that is still running.
C28_FlagFollowsTheRunningRefresh ==
    [][/\ AttemptEndsClearsFlag
       /\ SkipLeavesFlag
       /\ (sched.is_refreshing => Refreshing # {})]_vars

\* C28 witness: one caller's attempt has ended in failure with the flag cleared
\* while another caller's call, made during that attempt, came back skipped.
C28_Witness ==
    \E c, d \in Callers :
        /\ tasks[c].pc = "returned" /\ tasks[c].result.status = "failed"
        /\ tasks[d].pc = "returned" /\ tasks[d].result.status = "skipped"
        /\ ~sched.is_refreshing

\* C29: atomic_swap is all-or-nothing: after any refresh attempt, also one in
\* which a temp file is missing or a rename fails part-way, kb_schema.json,
\* kb_semantic.json and compiled_rules.json all come from the same refresh run.
C29_ProductionFilesFromOneRun ==
    /\ diskSchema.version = diskRules.version
    /\ diskSemantic.version = diskRules.version

\* C30: after a deterministic limit_change to N has been validated, executed and
\* stored as a turn, the stored turn's intent_summary.limit equals the LIMIT of
\* the stored (executed) SQL, for every N >= 1, also N greater than max_limit.
C30_StoredLimitMatchesSql ==
    [][\A r \in ReqSlots :
        (/\ reqs[r].pc = "exec" /\ reqs'[r].pc = "done" /\ reqs'[r].resp.kind = "rows"
         /\ reqs[r].gen.path = "deterministic"
         /\ reqs[r].ctx.refinement_instruction = "limit_change") =>
            LET turns == sessions'[reqs[r].session_id]
                turn  == turns[Len(turns)]
            IN  /\ turn.sql = reqs[r].val.sql
                /\ turn.intent_summary.limit = get_limit_value(turn.sql)]_vars
====
